---------------------------- MODULE Spec2Model ----------------------------
(***************************************************************************)
(* A model of the GFA1 line parser of rs-gfa2: the per-kind field          *)
(* grammars (parser_gfa1.rs), the two segment-identifier strategies        *)
(* (gfa2/traits.rs), the record containers and their Display               *)
(* implementations (gfa1.rs), and the parse_lines / parse_file loops.      *)
(*                                                                         *)
(* A byte is a one-character string, a byte string is a sequence of        *)
(* bytes: <<"S", "\t", "1", "1">> is the line "S\t11".  A usize is kept as *)
(* its canonical decimal digit string, so that the 64 bit range of the     *)
(* type is compared digit by digit and never wraps.                        *)
(***************************************************************************)
EXTENDS Integers, Sequences, FiniteSets, TLC

VARIABLES
  parser,   \* the GFAParser: the five switches, the tolerance, the strategy N
  entry,    \* the entry point that was called
  path,     \* parse_file's argument: does the file exist, and its extension
  gfa,      \* the GFA being built by the running call
  pc,       \* where the call is: "open", "loop", or how it ended
  err,      \* the ParseError the call returned, NoError otherwise
  seen,     \* the lines the call has taken from its line source, in order
  item      \* the result of the last parse_gfa_line call

vars == <<parser, entry, path, gfa, pc, err, seen, item>>

-----------------------------------------------------------------------------
(* Bytes *)

\* traits.rs CHARS: the table used to turn a symbol into its ascii code.
\* (The grave accent, code 96, is written "\\x60" here.)
CHARS ==
  << "NUL", "SOH", "STX", "ETX", "EOT", "ENQ", "ACK", "BEL", "BS", "HT", "LF", "VT", "FF", "CR",
     "SO", "SI", "DLE", "DC1", "DC2", "DC3", "DC4", "NAK", "SYN", "ETB", "CAN", "EM", "SUB", "ESC",
     "FS", "GS", "RS", "US",
     " ", "!", "\"", "#", "$", "%", "&", "'", "(", ")", "*", "+", ",", "-", ".", "/", "0", "1",
     "2", "3", "4", "5", "6", "7", "8", "9", ":", ";", "<", "=", ">", "?", "@", "A", "B", "C", "D",
     "E", "F", "G", "H", "I", "J", "K", "L", "M", "N", "O", "P", "Q", "R", "S", "T", "U", "V", "W",
     "X", "Y", "Z", "[", "\\", "]", "^", "_", "\\x60", "a", "b", "c", "d", "e", "f", "g", "h", "i", "j",
     "k", "l", "m", "n", "o", "p", "q", "r", "s", "t", "u", "v", "w", "x", "y", "z", "{", "|", "}",
     "~",
     "DEL" >>

\* The byte 0x01: a control byte, valid UTF-8, outside every grammar.
SOH == "\\x01"

\* The byte 0xFF: never valid UTF-8.
BAD == "\\xFF"

TAB == "\t"

Digits == <<"0", "1", "2", "3", "4", "5", "6", "7", "8", "9">>

DigitSet == {Digits[i] : i \in 1..10}

\* the regex class [!-~]
Printable == {CHARS[i] : i \in 34..127}

\* the regex class [A-Za-z=.]
SeqClass == {CHARS[i] : i \in 66..91} \cup {CHARS[i] : i \in 98..123} \cup {"=", "."}

\* the regex class [MIDNSHPX=]
CigarOps == {"M", "I", "D", "N", "S", "H", "P", "X", "="}

\* bytes removed by bstr's trim()
Whitespace == {" ", TAB, "\n", "\r"}

DigitVal(c) == (CHOOSE i \in 1..10 : Digits[i] = c) - 1

\* a byte string made of n copies of the byte c
RECURSIVE Rep(_, _)
Rep(c, n) == IF n = 0 THEN <<>> ELSE <<c>> \o Rep(c, n - 1)

\* s[a..b-1] in Rust notation, on 1-based positions a..b-1
Slice(s, a, b) == SubSeq(s, a, b - 1)

-----------------------------------------------------------------------------
(* bstr: trim and split_str *)

RECURSIVE TrimStart(_)
TrimStart(s) ==
  IF s # <<>> /\ Head(s) \in Whitespace THEN TrimStart(Tail(s)) ELSE s

RECURSIVE TrimEnd(_)
TrimEnd(s) ==
  IF s # <<>> /\ s[Len(s)] \in Whitespace
  THEN TrimEnd(SubSeq(s, 1, Len(s) - 1))
  ELSE s

Trim(s) == TrimEnd(TrimStart(s))

\* position of the first sep in s at or after i, Len(s) + 1 when there is none
RECURSIVE FindByte(_, _, _)
FindByte(s, sep, i) ==
  IF i > Len(s) THEN Len(s) + 1
  ELSE IF s[i] = sep THEN i
  ELSE FindByte(s, sep, i + 1)

\* ByteSlice::split_str with a one-byte splitter: the empty haystack gives one
\* empty element, n splitters give n + 1 elements.
RECURSIVE SplitStr(_, _)
SplitStr(s, sep) ==
  LET k == FindByte(s, sep, 1) IN
    IF k > Len(s) THEN <<s>>
    ELSE <<SubSeq(s, 1, k - 1)>> \o SplitStr(SubSeq(s, k + 1, Len(s)), sep)

\* the inverse used by the Display implementations: fields joined by sep
RECURSIVE Join(_, _)
Join(fs, sep) ==
  IF fs = <<>> THEN <<>>
  ELSE IF Len(fs) = 1 THEN fs[1]
  ELSE fs[1] \o <<sep>> \o Join(Tail(fs), sep)

-----------------------------------------------------------------------------
(* Results *)

\* Option / Result values.  A panic is the third outcome of a call: the
\* function does not return and the stack unwinds through its callers.  It
\* carries the message or the expression that panicked.
Ok(v) == [tag |-> "Ok", val |-> v]

Err(e) == [tag |-> "Err", val |-> e]

None == [tag |-> "None"]

Panic(msg) == [tag |-> "Panic", val |-> msg]

IsOk(r) == r.tag = "Ok"

IsErr(r) == r.tag = "Err"

IsNone(r) == r.tag = "None"

IsPanic(r) == r.tag = "Panic"

\* Option::ok_or, which a panic passes through untouched
ok_or(r, e) == IF IsNone(r) THEN Err(e) ELSE r

-----------------------------------------------------------------------------
(* regex::bytes::Regex::find on the patterns of the parser.  find returns  *)
(* the leftmost match; at that position the first alternative wins and     *)
(* repetitions are greedy.  NoMatch (0) stands for no position.            *)

NoMatch == 0

\* end (exclusive) of the longest run of bytes of class that starts at i
RECURSIVE SpanEnd(_, _, _)
SpanEnd(s, i, class) ==
  IF i <= Len(s) /\ s[i] \in class THEN SpanEnd(s, i + 1, class) ELSE i

\* the first position at or after i whose byte is in class
RECURSIVE FirstIn(_, _, _)
FirstIn(s, i, class) ==
  IF i > Len(s) THEN NoMatch
  ELSE IF s[i] \in class THEN i
  ELSE FirstIn(s, i + 1, class)

\* the digits of [0-9]+[MIDNSHPX=] span i..j-1: the end (exclusive) of the
\* match if the letter follows
CigarOpAt(s, i, j) ==
  IF j > i /\ j <= Len(s) /\ s[j] \in CigarOps THEN j + 1 ELSE NoMatch

\* [0-9]+[MIDNSHPX=] anchored at i: the end (exclusive) of the match
CigarEnd(s, i) == CigarOpAt(s, i, SpanEnd(s, i, DigitSet))

\* ([0-9]+[MIDNSHPX=])* anchored at i
RECURSIVE CigarsEnd(_, _)
CigarsEnd(s, i) ==
  IF CigarEnd(s, i) = NoMatch THEN i ELSE CigarsEnd(s, CigarEnd(s, i))

\* (,[0-9]+[MIDNSHPX=])* anchored at i
RECURSIVE CigarListEnd(_, _)
CigarListEnd(s, i) ==
  IF i <= Len(s) /\ s[i] = "," /\ CigarEnd(s, i + 1) # NoMatch
  THEN CigarListEnd(s, CigarEnd(s, i + 1))
  ELSE i

\* the leftmost position at or after i where \*|([0-9]+[MIDNSHPX=])+ matches
RECURSIVE OverlapStart(_, _)
OverlapStart(s, i) ==
  IF i > Len(s) THEN NoMatch
  ELSE IF s[i] = "*" \/ CigarEnd(s, i) # NoMatch THEN i
  ELSE OverlapStart(s, i + 1)

\* the match of \*|([0-9]+[MIDNSHPX=])+ that starts at i
OverlapAt(s, i) ==
  IF i = NoMatch THEN None
  ELSE IF s[i] = "*" THEN Ok(<<"*">>)
  ELSE Ok(Slice(s, i, CigarsEnd(s, i)))

\* parse_overlap's RE.find: (?-u)\*|([0-9]+[MIDNSHPX=])+
FindOverlap(s) == OverlapAt(s, OverlapStart(s, 1))

\* the match of \*|[0-9]+[MIDNSHPX=](,[0-9]+[MIDNSHPX=])* that starts at i
PathOverlapAt(s, i) ==
  IF i = NoMatch THEN None
  ELSE IF s[i] = "*" THEN Ok(<<"*">>)
  ELSE Ok(Slice(s, i, CigarListEnd(s, CigarEnd(s, i))))

\* parse_path_overlap's RE.find: (?-u)\*|[0-9]+[MIDNSHPX=](,[0-9]+[MIDNSHPX=])*
FindPathOverlap(s) == PathOverlapAt(s, OverlapStart(s, 1))

\* the match of \*|[A-Za-z=.]+ that starts at i
SequenceAt(s, i) ==
  IF i = NoMatch THEN None
  ELSE IF s[i] = "*" THEN Ok(<<"*">>)
  ELSE Ok(Slice(s, i, SpanEnd(s, i, SeqClass)))

\* parse_sequence's RE.find: (?-u)\*|[A-Za-z=.]+
FindSequence(s) == SequenceAt(s, FirstIn(s, 1, SeqClass \cup {"*"}))

\* the maximal run of printable bytes that starts at i
PrintableAt(s, i) ==
  IF i = NoMatch THEN None ELSE Ok(Slice(s, i, SpanEnd(s, i, Printable)))

\* RE.find of (?-u)[!-~]+ : the first maximal run of printable bytes
FindPrintable(s) == PrintableAt(s, FirstIn(s, 1, Printable))

\* parse_segment_names' RE.find: (?-u)[!-~]+(,[!-~]+)* .  The comma is itself
\* in [!-~], so the first greedy run already takes every comma and the
\* group never gets to repeat.
FindSegmentNames(s) == PrintableAt(s, FirstIn(s, 1, Printable))

-----------------------------------------------------------------------------
(* Integers: a usize is its canonical decimal digit string *)

\* the cap on the length of an encoded identifier (traits.rs, 1..=20)
MaxDigits == 20

\* usize::MAX on a 64 bit target, 18446744073709551615
USIZE_MAX ==
  << "1", "8", "4", "4", "6", "7", "4", "4", "0", "7", "3", "7", "0", "9",
     "5", "5", "1", "6", "1", "5" >>

\* a <= b for two digit strings of the same length
RECURSIVE DigitsLe(_, _)
DigitsLe(a, b) ==
  IF a = <<>> THEN TRUE
  ELSE IF DigitVal(Head(a)) < DigitVal(Head(b)) THEN TRUE
  ELSE IF DigitVal(Head(a)) > DigitVal(Head(b)) THEN FALSE
  ELSE DigitsLe(Tail(a), Tail(b))

RECURSIVE StripZeros(_)
StripZeros(ds) ==
  IF Len(ds) > 1 /\ Head(ds) = "0" THEN StripZeros(Tail(ds)) ELSE ds

FitsUsize(ds) ==
  \/ Len(StripZeros(ds)) < Len(USIZE_MAX)
  \/ /\ Len(StripZeros(ds)) = Len(USIZE_MAX)
     /\ DigitsLe(StripZeros(ds), USIZE_MAX)

\* one or more digits, in the range of usize
ParseDigits(ds) ==
  IF ds = <<>> \/ \E i \in 1..Len(ds) : ds[i] \notin DigitSet THEN None
  ELSE IF ~FitsUsize(ds) THEN None
  ELSE Ok(StripZeros(ds))

\* str::parse::<usize>: an optional '+', then one or more digits, in range
ParseUsize(s) ==
  ParseDigits(IF s # <<>> /\ Head(s) = "+" THEN Tail(s) ELSE s)

\* usize::to_string of a small number
RECURSIVE DecStr(_)
DecStr(n) ==
  IF n < 10 THEN <<Digits[n + 1]>> ELSE DecStr(n \div 10) \o <<Digits[(n % 10) + 1]>>

-----------------------------------------------------------------------------
(* gfa2/traits.rs: the two identifier strategies *)

\* get_code_from_char with a digit given its ASCII code like every other
\* character
get_code_from_char_ascii(c) ==
  IF \E i \in 1..Len(CHARS) : CHARS[i] = c
  THEN Ok((CHOOSE i \in 1..Len(CHARS) : CHARS[i] = c) - 1)
  ELSE Panic("position().unwrap()")

\* get_code_from_char: a digit is its own value, any other symbol is its
\* position in CHARS; position(..).unwrap() panics on a symbol CHARS lacks.
get_code_from_char(c) ==
  IF c \in DigitSet THEN Ok(DigitVal(c))
  ELSE IF \E i \in 1..Len(CHARS) : CHARS[i] = c
       THEN Ok((CHOOSE i \in 1..Len(CHARS) : CHARS[i] = c) - 1)
       ELSE Panic("position().unwrap()")

\* the while loop of parse_id: res = format!("{}{}", res, code(my_vec[x]))
\* from x up to len
RECURSIVE EncodeLoop(_, _, _)
EncodeLoop(my_vec, x, res) ==
  IF x >= Len(my_vec) THEN Ok(res)
  ELSE IF IsPanic(get_code_from_char(my_vec[x + 1]))
  THEN get_code_from_char(my_vec[x + 1])
  ELSE EncodeLoop(my_vec, x + 1,
                  res \o DecStr(get_code_from_char(my_vec[x + 1]).val))

\* the digit string res that parse_id builds for the characters cs
EncodeChars(cs) == EncodeLoop(cs, 0, <<>>)

\* <[u8]>::to_str: fails on bytes that are not UTF-8
IsUtf8(s) == \A i \in 1..Len(s) : s[i] # BAD

\* Option::unwrap
unwrap(o, msg) == IF IsNone(o) THEN Panic(msg) ELSE o

\* match res.len() of parse_id: 1..=20 is parsed, anything else panics
match_res_len(res) ==
  IF IsPanic(res) THEN res
  ELSE IF Len(res.val) \in 1..MaxDigits
  THEN unwrap(ParseUsize(res.val), "parse::<usize>().unwrap()")
  ELSE Panic("exceeds the maximum length (20 digits)")

\* usize_parse_id with an identifier that cannot be encoded reported as None
usize_parse_id_none(input) ==
  IF IsNone(FindPrintable(input)) \/ ~IsUtf8(input) THEN None
  ELSE LET res == EncodeChars(input) IN
    IF IsPanic(res) \/ Len(res.val) \notin 1..MaxDigits THEN None
    ELSE ParseUsize(res.val)

\* <usize as SegmentId>::parse_id
usize_parse_id(input) ==
  IF IsNone(FindPrintable(input)) THEN Panic("the id tag it's not correct")
  ELSE IF ~IsUtf8(input) THEN Panic("to_str().unwrap()")
  ELSE match_res_len(EncodeChars(input))

\* <BString as SegmentId>::parse_id
BString_parse_id(input) == FindPrintable(input)

\* the strategies: N of GFAParser<N, T>
IdStrategies == {"usize", "BString"}

\* SegmentId::ERROR
ERROR(N) == IF N = "usize" THEN "UintIdError" ELSE "Utf8Error"

parse_id(N, input) ==
  IF N = "usize" THEN usize_parse_id(input) ELSE BString_parse_id(input)

\* <usize as SegmentId>::parse_opt_id: (?-u)[!-~]+|\* matches wherever
\* (?-u)[!-~]+ does, the star being a byte of [!-~]
usize_parse_opt_id(input) ==
  IF IsNone(FindPrintable(input))
  THEN Panic("the optional id tag it's not correct")
  ELSE IF ~IsUtf8(input) THEN Panic("to_str().unwrap()")
  ELSE match_res_len(EncodeChars(input))

\* <BString as SegmentId>::parse_opt_id: RE.find of (?-u)[!-~]+|\* , whose
\* leftmost match is the first run of printable bytes
BString_parse_opt_id(input) == FindPrintable(input)

parse_opt_id(N, input) ==
  IF N = "usize" THEN usize_parse_opt_id(input)
  ELSE BString_parse_opt_id(input)

\* the bytes that close an oriented reference: [+-]
Signs == {"+", "-"}

\* the last position of s in i+1..e-1 that holds a sign, or NoMatch
LastSign(s, i, e) ==
  IF \E j \in (i + 1)..(e - 1) : s[j] \in Signs
  THEN CHOOSE j \in (i + 1)..(e - 1) :
         s[j] \in Signs /\ \A k \in (j + 1)..(e - 1) : s[k] \notin Signs
  ELSE NoMatch

\* the match of (?-u)[!-~]+[+-] in the printable run i..e-1 of s, if it has
\* one, and else the match in what follows the run
RECURSIVE RefAt(_, _, _)
RefAt(s, i, e) ==
  IF i = NoMatch THEN None
  ELSE IF LastSign(s, i, e) # NoMatch
  THEN Ok(Slice(s, i, LastSign(s, i, e) + 1))
  ELSE RefAt(s, FirstIn(s, e, Printable),
             SpanEnd(s, FirstIn(s, e, Printable), Printable))

\* RE.find of (?-u)[!-~]+[+-] : leftmost, and greedy up to the last sign
FindRef(s) ==
  RefAt(s, FirstIn(s, 1, Printable),
        SpanEnd(s, FirstIn(s, 1, Printable), Printable))

\* match res.len() of parse_ref: 1..=20 gets the orientation digit appended
\* and is parsed with .ok(), anything else panics
match_ref_len(res, orient) ==
  IF IsPanic(res) THEN res
  ELSE IF Len(res.val) \in 1..MaxDigits
  THEN ParseUsize(res.val \o orient)
  ELSE Panic("exceeds the maximum length (20 digits)")

\* usize_parse_ref with the two orientation digits taken for each other
usize_parse_ref_inverted(input) ==
  IF IsNone(FindRef(input))
  THEN Panic("the reference tag it's not correct")
  ELSE IF input[Len(input)] \notin Signs
  THEN Panic("reference segment did not include orientation")
  ELSE IF ~IsUtf8(SubSeq(input, 1, Len(input) - 1))
  THEN Panic("to_str().unwrap()")
  ELSE match_ref_len(EncodeChars(SubSeq(input, 1, Len(input) - 1)),
                     IF input[Len(input)] = "+" THEN <<"1">> ELSE <<"0">>)

\* <usize as SegmentId>::parse_ref
usize_parse_ref(input) ==
  IF IsNone(FindRef(input))
  THEN Panic("the reference tag it's not correct")
  ELSE IF input[Len(input)] \notin Signs
  THEN Panic("reference segment did not include orientation")
  ELSE IF ~IsUtf8(SubSeq(input, 1, Len(input) - 1))
  THEN Panic("to_str().unwrap()")
  ELSE match_ref_len(EncodeChars(SubSeq(input, 1, Len(input) - 1)),
                     IF input[Len(input)] = "+" THEN <<"0">> ELSE <<"1">>)

\* <BString as SegmentId>::parse_ref
BString_parse_ref(input) == FindRef(input)

parse_ref(N, input) ==
  IF N = "usize" THEN usize_parse_ref(input) ELSE BString_parse_ref(input)

\* SegmentId::parse_next on the k-th field of fs
parse_next(N, fs, k) ==
  IF k > Len(fs) THEN Err("MissingFields")
  ELSE ok_or(parse_id(N, fs[k]), ERROR(N))

-----------------------------------------------------------------------------
(* Orientation and the optional fields (tag codec) *)

\* Orientation::from_bytes_plus_minus
from_bytes_plus_minus(bs) ==
  IF bs = <<"+">> THEN Ok("Forward")
  ELSE IF bs = <<"-">> THEN Ok("Backward")
  ELSE None

\* Display for Orientation
Orientation_fmt(o) == IF o = "Forward" THEN <<"+">> ELSE <<"-">>

HexDigits == DigitSet \cup {"A", "B", "C", "D", "E", "F", "a", "b", "c", "d", "e", "f"}

TagTypes == {"A", "i", "f", "Z", "H", "B"}

\* an optional sign followed by one or more digits
IsInt(v) ==
  LET ds == IF v # <<>> /\ Head(v) \in {"+", "-"} THEN Tail(v) ELSE v IN
    ds # <<>> /\ \A i \in 1..Len(ds) : ds[i] \in DigitSet

\* a floating point literal: sign, digits, and at most one '.'
IsFloat(v) ==
  LET ds == IF v # <<>> /\ Head(v) \in {"+", "-"} THEN Tail(v) ELSE v IN
    /\ \E i \in 1..Len(ds) : ds[i] \in DigitSet
    /\ \A i \in 1..Len(ds) : ds[i] \in DigitSet \cup {"."}
    /\ Cardinality({i \in 1..Len(ds) : ds[i] = "."}) <= 1

\* a subtype letter and a comma separated list of numbers
IsArray(v) ==
  /\ Len(v) >= 2
  /\ v[1] \in {"c", "C", "s", "S", "i", "I", "f"}
  /\ LET items == SplitStr(Tail(v), ",") IN
       \A k \in 1..Len(items) :
         IF v[1] = "f" THEN IsFloat(items[k]) ELSE IsInt(items[k])

\* the value sub-grammar of each type letter
ValueOk(t, v) ==
  CASE t = "A" -> Len(v) = 1 /\ v[1] \in Printable
    [] t = "i" -> IsInt(v)
    [] t = "f" -> IsFloat(v)
    [] t = "Z" -> v # <<>> /\ \A i \in 1..Len(v) : v[i] \in Printable \cup {" "}
    [] t = "H" -> v # <<>> /\ Len(v) % 2 = 0 /\ \A i \in 1..Len(v) : v[i] \in HexDigits
    [] t = "B" -> IsArray(v)
    [] OTHER -> FALSE

\* OptField::parse: TT:t:VALUE.  The Z value keeps the token as it was
\* given (tests::can_parse_header), the other types keep VALUE.
OptField_parse(token) ==
  IF /\ Len(token) >= 6
     /\ token[1] \in Printable /\ token[2] \in Printable
     /\ token[3] = ":" /\ token[5] = ":"
     /\ token[4] \in TagTypes
     /\ ValueOk(token[4], SubSeq(token, 6, Len(token)))
  THEN Ok([tag   |-> SubSeq(token, 1, 2),
           type  |-> token[4],
           value |-> IF token[4] = "Z" THEN token
                     ELSE SubSeq(token, 6, Len(token))])
  ELSE None

\* OptField::new(tag, value), the value being of the type letter type
OptField_new(tag, type, value) == [tag |-> tag, type |-> type, value |-> value]

\* Display for OptField
OptField_fmt(f) ==
  IF f.type = "Z" THEN f.value ELSE f.tag \o <<":", f.type, ":">> \o f.value

\* a token that is no well-formed tag is dropped
KeepTag(f) == IF IsOk(f) THEN <<f.val>> ELSE <<>>

\* OptionalFields::parse: every remaining token that is a tag, in order
RECURSIVE OptFields_parse(_, _)
OptFields_parse(fs, k) ==
  IF k > Len(fs) THEN <<>>
  ELSE KeepTag(OptField_parse(fs[k])) \o OptFields_parse(fs, k + 1)

-----------------------------------------------------------------------------
(* parser_gfa1.rs: field parsers.  fs is the token stream after the kind    *)
(* letter and k the position of the next token in it.                       *)

\* next_field with the end of the line read as an empty field
next_field_empty(fs, k) == IF k > Len(fs) THEN Ok(<<>>) ELSE Ok(fs[k])

next_field(fs, k) == IF k > Len(fs) THEN Err("MissingFields") ELSE Ok(fs[k])

parse_orientation(fs, k) ==
  LET next == next_field(fs, k) IN
    IF ~IsOk(next) THEN next
    ELSE ok_or(from_bytes_plus_minus(next.val), "OrientationError")

parse_overlap(fs, k) ==
  LET next == next_field(fs, k) IN
    IF ~IsOk(next) THEN next
    ELSE ok_or(FindOverlap(next.val), "InvalidField(Overlap)")

parse_sequence(fs, k) ==
  LET next == next_field(fs, k) IN
    IF ~IsOk(next) THEN next
    ELSE ok_or(FindSequence(next.val), "InvalidField(Sequence)")

parse_path_overlap(fs, k) ==
  LET next == next_field(fs, k) IN
    IF ~IsOk(next) THEN next
    ELSE ok_or(FindPathOverlap(next.val), "InvalidField(Overlap)")

parse_segment_names(fs, k) ==
  LET next == next_field(fs, k) IN
    IF ~IsOk(next) THEN next
    ELSE ok_or(FindSegmentNames(next.val), "InvalidField(Segment names)")

\* pos.as_ref().to_str()?.parse()? of Containment::parse_line
parse_pos(fs, k) ==
  LET next == next_field(fs, k) IN
    IF ~IsOk(next) THEN next
    ELSE IF ~IsUtf8(next.val) THEN Err("Utf8Error")
    ELSE ok_or(ParseUsize(next.val), "ParseIntError")

-----------------------------------------------------------------------------
(* parser_gfa1.rs: the record grammars *)

\* the ? operator: a failure is returned at once, else the rest is evaluated
Try(r, rest) == IF ~IsOk(r) THEN r ELSE rest

\* version of Header::parse_line: Some only for a tag of type Z
Z_version(version) ==
  IF IsOk(version) /\ version.val.type = "Z"
  THEN Ok(version.val.value) ELSE None

\* Header::parse_line with the first field handed to the optional fields too
Header_fields_all(next, fs) ==
  Try(next,
      Ok([kind     |-> "H",
          version  |-> Z_version(OptField_parse(next.val)),
          optional |-> OptFields_parse(fs, 1)]))

\* Header::parse_line once its first field has been taken
Header_fields(next, fs) ==
  Try(next,
      Ok([kind     |-> "H",
          version  |-> Z_version(OptField_parse(next.val)),
          optional |-> OptFields_parse(fs, 2)]))

\* Header::parse_line
Header_parse_line(fs) == Header_fields(next_field(fs, 1), fs)

\* Segment::parse_line: the fields in the order they are parsed
Segment_fields(name, sequence, optional) ==
  Try(name,
  Try(sequence,
      Ok([kind     |-> "S",
          name     |-> name.val,
          sequence |-> sequence.val,
          optional |-> optional])))

\* Segment::parse_line
Segment_parse_line(N, fs) ==
  Segment_fields(parse_next(N, fs, 1), parse_sequence(fs, 2),
                 OptFields_parse(fs, 3))

\* Link_fields with the two segment names stored in each other's place
Link_fields_swapped(from_segment, from_orient, to_segment, to_orient, overlap, optional) ==
  Try(from_segment,
  Try(from_orient,
  Try(to_segment,
  Try(to_orient,
  Try(overlap,
      Ok([kind         |-> "L",
          from_segment |-> to_segment.val,
          from_orient  |-> from_orient.val,
          to_segment   |-> from_segment.val,
          to_orient    |-> to_orient.val,
          overlap      |-> overlap.val,
          optional     |-> optional]))))))

\* Link::parse_line: the fields in the order they are parsed
Link_fields(from_segment, from_orient, to_segment, to_orient, overlap, optional) ==
  Try(from_segment,
  Try(from_orient,
  Try(to_segment,
  Try(to_orient,
  Try(overlap,
      Ok([kind         |-> "L",
          from_segment |-> from_segment.val,
          from_orient  |-> from_orient.val,
          to_segment   |-> to_segment.val,
          to_orient    |-> to_orient.val,
          overlap      |-> overlap.val,
          optional     |-> optional]))))))

\* Link::parse_line
Link_parse_line(N, fs) ==
  Link_fields(parse_next(N, fs, 1), parse_orientation(fs, 2),
              parse_next(N, fs, 3), parse_orientation(fs, 4),
              parse_overlap(fs, 5), OptFields_parse(fs, 6))

\* Containment::parse_line: the fields in the order they are parsed
Containment_fields(container_name, container_orient, contained_name, contained_orient, pos, overlap, optional) ==
  Try(container_name,
  Try(container_orient,
  Try(contained_name,
  Try(contained_orient,
  Try(pos,
  Try(overlap,
      Ok([kind             |-> "C",
          container_name   |-> container_name.val,
          container_orient |-> container_orient.val,
          contained_name   |-> contained_name.val,
          contained_orient |-> contained_orient.val,
          overlap          |-> overlap.val,
          pos              |-> pos.val,
          optional         |-> optional])))))))

\* Containment::parse_line
Containment_parse_line(N, fs) ==
  Containment_fields(parse_next(N, fs, 1), parse_orientation(fs, 2),
                     parse_next(N, fs, 3), parse_orientation(fs, 4),
                     parse_pos(fs, 5), parse_overlap(fs, 6),
                     OptFields_parse(fs, 7))

\* Path::parse_line: the fields in the order they are parsed
Path_fields(path_name, segment_names, overlaps, optional) ==
  Try(path_name,
  Try(segment_names,
  Try(overlaps,
      Ok([kind          |-> "P",
          path_name     |-> path_name.val,
          segment_names |-> segment_names.val,
          overlaps      |-> overlaps.val,
          optional      |-> optional]))))

\* Path::parse_line: the path name is a BString whatever N is
Path_parse_line(N, fs) ==
  Path_fields(parse_next("BString", fs, 1), parse_segment_names(fs, 2),
              parse_path_overlap(fs, 3), OptFields_parse(fs, 4))

-----------------------------------------------------------------------------
(* parser_gfa1.rs: GFAParserBuilder and GFAParser::parse_gfa_line *)

Tolerances == {"IgnoreAll", "Safe", "Pedantic"}

\* GFAParserBuilder::none
none ==
  [headers |-> FALSE, segments |-> FALSE, links |-> FALSE,
   containments |-> FALSE, paths |-> FALSE]

\* GFAParserBuilder::all
all ==
  [headers |-> TRUE, segments |-> TRUE, links |-> TRUE,
   containments |-> TRUE, paths |-> TRUE]

\* GFAParserBuilder::build: the switches, the tolerance and the strategy N
build(b, tol, N) ==
  [headers |-> b.headers, segments |-> b.segments, links |-> b.links,
   containments |-> b.containments, paths |-> b.paths,
   tolerance |-> tol, N |-> N]

\* ParseError values
EmptyLine == [kind |-> "EmptyLine", field |-> "", bytes |-> <<>>]

UnknownLineType == [kind |-> "UnknownLineType", field |-> "", bytes |-> <<>>]

IoError == [kind |-> "Io", field |-> "", bytes |-> <<>>]

ExtensionError == [kind |-> "ExtensionError", field |-> "", bytes |-> <<>>]

NoError == [kind |-> "", field |-> "", bytes |-> <<>>]

\* ParseError::invalid_line
invalid_line(e, bytes) == [kind |-> "InvalidLine", field |-> e, bytes |-> bytes]

\* the match on the kind letter of parse_gfa_line
Dispatch(p, hdr, fs) ==
  IF hdr = <<"H">> THEN Header_parse_line(fs)
  ELSE IF hdr = <<"S">> /\ p.segments THEN Segment_parse_line(p.N, fs)
  ELSE IF hdr = <<"L">> /\ p.links THEN Link_parse_line(p.N, fs)
  ELSE IF hdr = <<"C">> /\ p.containments THEN Containment_parse_line(p.N, fs)
  ELSE IF hdr = <<"P">> /\ p.paths THEN Path_parse_line(p.N, fs)
  ELSE None

\* the end of parse_gfa_line: no arm gives UnknownLineType, and
\* map_err(invalid_line) wraps the error of a field
map_err(line, bytes) ==
  IF IsNone(line) THEN Err(UnknownLineType)
  ELSE IF IsErr(line) THEN Err(invalid_line(line.val, bytes))
  ELSE line

\* parse_gfa_line on the fields of the trimmed line
parse_fields(p, fields, bytes) ==
  IF fields = <<>> THEN Err(EmptyLine)
  ELSE map_err(Dispatch(p, Head(fields), Tail(fields)), bytes)

\* GFAParser::parse_gfa_line
parse_gfa_line(p, bytes) == parse_fields(p, SplitStr(Trim(bytes), TAB), bytes)

\* Some(result) of GFAParserLineIter::next; a panic of parse_gfa_line unwinds
\* through next
Some_result(result) == IF IsPanic(result) THEN result ELSE Ok(result)

\* GFAParserLineIter::next, next_line being what self.iter.next() returned
LineIter_next(p, next_line) ==
  IF IsNone(next_line) THEN None
  ELSE Some_result(parse_gfa_line(p, next_line.val))

-----------------------------------------------------------------------------
(* gfa1.rs: the GFA container *)

\* GFA::new
GFA_new ==
  [headers |-> <<>>, segments |-> <<>>, links |-> <<>>,
   containments |-> <<>>, paths |-> <<>>]

\* insert_line with a header that replaces the headers held so far
insert_line_replace(g, line) ==
  CASE line.kind = "H" -> [g EXCEPT !.headers = <<line>>]
    [] line.kind = "S" -> [g EXCEPT !.segments = Append(@, line)]
    [] line.kind = "L" -> [g EXCEPT !.links = Append(@, line)]
    [] line.kind = "C" -> [g EXCEPT !.containments = Append(@, line)]
    [] line.kind = "P" -> [g EXCEPT !.paths = Append(@, line)]

\* GFA::insert_line
insert_line(g, line) ==
  CASE line.kind = "H" -> [g EXCEPT !.headers = Append(@, line)]
    [] line.kind = "S" -> [g EXCEPT !.segments = Append(@, line)]
    [] line.kind = "L" -> [g EXCEPT !.links = Append(@, line)]
    [] line.kind = "C" -> [g EXCEPT !.containments = Append(@, line)]
    [] line.kind = "P" -> [g EXCEPT !.paths = Append(@, line)]

\* lines_iter with the paths chained before the containments
lines_iter_unordered(g) ==
  g.headers \o g.segments \o g.links \o g.paths \o g.containments

\* GFA::lines_iter: heads.chain(segs).chain(links).chain(conts).chain(paths)
\* over references to the records
lines_iter(g) ==
  g.headers \o g.segments \o g.links \o g.containments \o g.paths

\* GFA::lines_into_iter: the same chain over the records themselves
lines_into_iter(g) ==
  g.headers \o g.segments \o g.links \o g.containments \o g.paths

-----------------------------------------------------------------------------
(* gfa2.rs: the GFA2 container *)

\* GFA2::new
GFA2_new ==
  [headers |-> <<>>, segments |-> <<>>, fragments |-> <<>>, edges |-> <<>>,
   gaps |-> <<>>, groups_o |-> <<>>, groups_u |-> <<>>]

\* GFA2::insert_line
GFA2_insert_line(g, line) ==
  CASE line.kind = "H" -> [g EXCEPT !.headers = Append(@, line)]
    [] line.kind = "S" -> [g EXCEPT !.segments = Append(@, line)]
    [] line.kind = "F" -> [g EXCEPT !.fragments = Append(@, line)]
    [] line.kind = "E" -> [g EXCEPT !.edges = Append(@, line)]
    [] line.kind = "G" -> [g EXCEPT !.gaps = Append(@, line)]
    [] line.kind = "O" -> [g EXCEPT !.groups_o = Append(@, line)]
    [] line.kind = "U" -> [g EXCEPT !.groups_u = Append(@, line)]

\* GFA2::lines_iter: heads.chain(segs).chain(frags).chain(edges).chain(gaps)
\* .chain(ogroups).chain(ugroups) over references to the records
GFA2_lines_iter(g) ==
  g.headers \o g.segments \o g.fragments \o g.edges \o g.gaps
    \o g.groups_o \o g.groups_u

\* GFA2::lines_into_iter: the same chain over the records themselves
GFA2_lines_into_iter(g) ==
  g.headers \o g.segments \o g.fragments \o g.edges \o g.gaps
    \o g.groups_o \o g.groups_u

\* ParseError::can_safely_continue
can_safely_continue(e, tol) ==
  CASE tol = "IgnoreAll" -> TRUE
    [] tol = "Safe" -> e.kind \in {"EmptyLine", "UnknownLineType"}
    [] tol = "Pedantic" -> FALSE

-----------------------------------------------------------------------------
(* gfa1.rs: the Display implementations *)

\* opt.iter().fold(String::new(), |acc, str| acc + &str.to_string() + "\t")
RECURSIVE OptFields_fmt(_)
OptFields_fmt(optional) ==
  IF optional = <<>> THEN <<>>
  ELSE OptField_fmt(Head(optional)) \o <<TAB>> \o OptFields_fmt(Tail(optional))

\* impl Display for Header
Header_fmt(h) ==
  IF IsOk(h.version)
  THEN <<"H", TAB>> \o h.version.val \o <<TAB>> \o OptFields_fmt(h.optional)
  ELSE <<"H">>

\* impl Display for Segment
Segment_fmt(r) ==
  <<"S", TAB>> \o r.name \o <<TAB>> \o r.sequence \o <<TAB>>
    \o OptFields_fmt(r.optional)

\* impl Display for Link
Link_fmt(r) ==
  <<"L", TAB>> \o r.from_segment \o <<TAB>> \o Orientation_fmt(r.from_orient)
    \o <<TAB>> \o r.to_segment \o <<TAB>> \o Orientation_fmt(r.to_orient)
    \o <<TAB>> \o r.overlap \o <<TAB>> \o OptFields_fmt(r.optional)

\* impl Display for Containment
Containment_fmt(r) ==
  <<"C", TAB>> \o r.container_name \o <<TAB>>
    \o Orientation_fmt(r.container_orient) \o <<TAB>> \o r.contained_name
    \o <<TAB>> \o Orientation_fmt(r.contained_orient) \o <<TAB>> \o r.pos
    \o <<TAB>> \o r.overlap \o <<TAB>> \o OptFields_fmt(r.optional)

\* impl Display for Path
Path_fmt(r) ==
  <<"P", TAB>> \o r.path_name \o <<TAB>> \o r.segment_names \o <<TAB>>
    \o r.overlaps \o <<TAB>> \o OptFields_fmt(r.optional)

\* Display of a record of any kind
Line_fmt(r) ==
  CASE r.kind = "H" -> Header_fmt(r)
    [] r.kind = "S" -> Segment_fmt(r)
    [] r.kind = "L" -> Link_fmt(r)
    [] r.kind = "C" -> Containment_fmt(r)
    [] r.kind = "P" -> Path_fmt(r)

-----------------------------------------------------------------------------
(* gfa1.rs: Path *)

\* Path::new
Path_new(path_name, segment_names, overlaps, optional) ==
  [kind          |-> "P",
   path_name     |-> path_name,
   segment_names |-> segment_names,
   overlaps      |-> overlaps,
   optional      |-> optional]

\* segment_id_ref with every sign read as Forward
segment_id_ref_forward(input) ==
  IF input = <<>> THEN Panic("input[last]")
  ELSE IF input[Len(input)] \in {"+", "-"}
  THEN Ok(<<SubSeq(input, 1, Len(input) - 1), "Forward">>)
  ELSE Panic("Path segment did not include orientation")

\* Path::<BString, T>::segment_id_ref: the token without its last byte, and
\* the orientation that the last byte names.  On an empty token len() - 1
\* underflows: an overflow panic, or an index out of bounds.
segment_id_ref(input) ==
  IF input = <<>> THEN Panic("input[last]")
  ELSE IF input[Len(input)] = "+"
  THEN Ok(<<SubSeq(input, 1, Len(input) - 1), "Forward">>)
  ELSE IF input[Len(input)] = "-"
  THEN Ok(<<SubSeq(input, 1, Len(input) - 1), "Backward">>)
  ELSE Panic("Path segment did not include orientation")

\* the last two lines of parse_segment_id: let id = N::parse_id(seg)?;
\* Some((id, orient))
with_parsed_id(id, orient) ==
  IF IsOk(id) THEN Ok(<<id.val, orient>>) ELSE id

\* Path::parse_segment_id
parse_segment_id(N, input) ==
  IF ~IsOk(segment_id_ref(input)) THEN segment_id_ref(input)
  ELSE with_parsed_id(parse_id(N, segment_id_ref(input).val[1]),
                      segment_id_ref(input).val[2])

\* the iterator driven to its end: the items it yields, and whether next()
\* returned None ("done") or panicked.  map yields every item; filter_map
\* drops a None.
RECURSIVE Drive(_, _, _, _), Yield(_, _, _, _, _)
Drive(N, tokens, k, yielded) ==
  IF k > Len(tokens) THEN [yielded |-> yielded, end |-> "done"]
  ELSE Yield(N, tokens, k, yielded,
             IF N = "BString" THEN segment_id_ref(tokens[k])
             ELSE parse_segment_id(N, tokens[k]))

\* one call of next() that reached the k-th token and got x from the closure
Yield(N, tokens, k, yielded, x) ==
  IF IsPanic(x) THEN [yielded |-> yielded, end |-> "panic"]
  ELSE IF IsNone(x) THEN Drive(N, tokens, k + 1, yielded)
  ELSE Drive(N, tokens, k + 1, Append(yielded, x.val))

\* Path::<BString, T>::iter and Path::<usize, T>::iter
Path_iter(N, r) == Drive(N, SplitStr(r.segment_names, ","), 1, <<>>)

-----------------------------------------------------------------------------
(* gfa2.rs: GroupO and GroupU *)

\* GroupO::new
GroupO_new(id, var_field, tag) ==
  [kind |-> "O", id |-> id, var_field |-> var_field, tag |-> tag]

\* GroupU::new
GroupU_new(id, var_field, tag) ==
  [kind |-> "U", id |-> id, var_field |-> var_field, tag |-> tag]

\* GroupO::<BString, T>::segment_id_ref
GroupO_segment_id_ref(input) ==
  IF input = <<>> THEN Panic("input[last]")
  ELSE IF input[Len(input)] = "+"
  THEN Ok(<<SubSeq(input, 1, Len(input) - 1), "Forward">>)
  ELSE IF input[Len(input)] = "-"
  THEN Ok(<<SubSeq(input, 1, Len(input) - 1), "Backward">>)
  ELSE Panic("Group O segment did not include orientation")

\* GroupO::parse_segment_id
GroupO_parse_segment_id(N, input) ==
  IF ~IsOk(GroupO_segment_id_ref(input)) THEN GroupO_segment_id_ref(input)
  ELSE with_parsed_id(parse_id(N, GroupO_segment_id_ref(input).val[1]),
                      GroupO_segment_id_ref(input).val[2])

\* GroupU::<BString, T>::segment_id_ref
GroupU_segment_id_ref(input) == Ok(input)

\* GroupU::parse_segment_id: let id = N::parse_opt_id(input)?; Some(id)
GroupU_parse_segment_id(N, input) == parse_opt_id(N, input)

\* the closure that the iterator of a group of kind G applies to a token
Group_closure(G, N, token) ==
  IF G = "O"
  THEN IF N = "BString" THEN GroupO_segment_id_ref(token)
       ELSE GroupO_parse_segment_id(N, token)
  ELSE IF N = "BString" THEN GroupU_segment_id_ref(token)
       ELSE GroupU_parse_segment_id(N, token)

\* the iterator of a group driven to its end, as Drive does for a Path
RECURSIVE GroupDrive(_, _, _, _, _), GroupYield(_, _, _, _, _, _)
GroupDrive(G, N, tokens, k, yielded) ==
  IF k > Len(tokens) THEN [yielded |-> yielded, end |-> "done"]
  ELSE GroupYield(G, N, tokens, k, yielded, Group_closure(G, N, tokens[k]))

\* one call of next() that reached the k-th token and got x from the closure
GroupYield(G, N, tokens, k, yielded, x) ==
  IF IsPanic(x) THEN [yielded |-> yielded, end |-> "panic"]
  ELSE IF IsNone(x) THEN GroupDrive(G, N, tokens, k + 1, yielded)
  ELSE GroupDrive(G, N, tokens, k + 1, Append(yielded, x.val))

\* GroupO::iter and GroupU::iter, of either strategy
Group_iter(N, r) == GroupDrive(r.kind, N, SplitStr(r.var_field, " "), 1, <<>>)

-----------------------------------------------------------------------------
(* The inputs *)

\* the longest input a call is given
MaxLines == 2

B(fields) == Join(fields, TAB)

LineHeader == B(<< <<"H">>, <<"V", "N", ":", "Z", ":", "1", ".", "0">> >>)

LineSegment11 == B(<< <<"S">>, <<"1", "1">>, <<"A", "C", "C", "T", "T">> >>)

LineSegment12 == B(<< <<"S">>, <<"1", "2">>, <<"*">> >>)

LineLink == B(<< <<"L">>, <<"1", "1">>, <<"+">>, <<"1", "2">>, <<"-">>, <<"4", "M">> >>)

LineContainment ==
  B(<< <<"C">>, <<"1">>, <<"-">>, <<"2">>, <<"+">>, <<"1", "1", "0">>,
       <<"1", "0", "0", "M">> >>)

LinePath ==
  B(<< <<"P">>, <<"1", "4">>, <<"1", "1", "+", ",", "1", "2", "-">>,
       <<"4", "M">> >>)

\* an unregistered kind letter
LineUnknown == B(<< <<"X">>, <<"1">>, <<"2">> >>)

\* nothing but white space
LineBlank == <<" ">>

\* a sequence field with no byte of the sequence alphabet
LineBadSequence == B(<< <<"S">>, <<"1">>, <<"1", "2", "3">> >>)

\* a link whose last required field holds no overlap
LineBadOverlap == B(<< <<"L">>, <<"1">>, <<"+">>, <<"2">>, <<"-">>, <<"M">> >>)

\* a link to a segment of eleven letters
LineLinkLongId ==
  B(<< <<"L">>, <<"1">>, <<"+">>, Rep("a", 11), <<"-">>, <<"*">> >>)

\* a segment line that stops after the name
LineShortSegment == B(<< <<"S">>, <<"1">> >>)

\* an empty identifier
LineEmptyId == B(<< <<"S">>, <<>>, <<"A">> >>)

\* eleven letters: 22 digits once encoded
LineLongId == B(<< <<"S">>, Rep("a", 11), <<"A">> >>)

\* the lines a line source can yield
Lines ==
  { LineHeader, LineSegment11, LineSegment12, LineLink, LineContainment,
    LinePath, LineUnknown, LineBlank, LineBadSequence, LineBadOverlap,
    LineShortSegment, LineEmptyId, LineLongId, LineLinkLongId }

\* the field-wise truncations of a line: its first k fields, k >= 1
Truncations(line) ==
  LET fs == SplitStr(line, TAB) IN
    { Join(SubSeq(fs, 1, k), TAB) : k \in 1..Len(fs) }

LineTagged ==
  B(<< <<"S">>, <<"1">>, <<"A">>, <<"L", "N", ":", "i", ":", "1", "2", "3">> >>)

\* lines with a field of which only a part is in the grammar of the field
PartialLines ==
  { B(<< <<"S">>, <<"1">>, <<"A", "C", "1", "G", "T">> >>),
    B(<< <<"S">>, <<"1">>, <<"*", "A">> >>),
    B(<< <<"L">>, <<"1">>, <<"+">>, <<"2">>, <<"-">>, <<"4", "M", "x">> >>),
    B(<< <<"L">>, <<"1">>, <<"+">>, <<"2">>, <<"-">>, <<"M", "4", "M", "5">> >>),
    B(<< <<"C">>, <<"1">>, <<"-">>, <<"2">>, <<"+">>, <<"5">>, <<"*", "*">> >>),
    B(<< <<"P">>, <<"1">>, <<"1", "+">>, <<"4", "M", ",", "5">> >>),
    B(<< <<"P">>, <<"1">>, <<"1", "+", " ", "2", "-">>, <<"*">> >>),
    B(<< <<"P">>, <<"1">>, <<"1", ",", "2">>, <<"4", "M">> >>) }

\* lines with a field no part of which is in the grammar of the field
BadFieldLines ==
  { LineBadSequence, LineBadOverlap,
    B(<< <<"L">>, <<"1">>, <<"x">>, <<"2">>, <<"-">>, <<"4", "M">> >>),
    B(<< <<"L">>, <<"1">>, <<"x">> >>),
    B(<< <<"C">>, <<"1">>, <<"-">>, <<"2">>, <<"+">>, <<"x">>, <<"*">> >>),
    B(<< <<"C">>, <<"1">>, <<"-">>, <<"2">>, <<"+">>, Rep("9", 20), <<"*">> >>),
    B(<< <<"P">>, <<"1">>, <<SOH>>, <<"*">> >>),
    B(<< <<"P">>, <<"1">>, <<"1", "+">>, <<",">> >>) }

\* segment lines whose name puts the identifier strategies to the test
IdLines ==
  { B(<< <<"S">>, id, <<"A">> >>) :
      id \in { <<"a">>, <<"9", "7">>, <<"0", "0", "7">>, Rep("d", 6),
               Rep("a", 10), Rep("a", 11), Rep("1", 20), Rep("9", 20),
               Rep("1", 21), <<"1", SOH>>, <<SOH>>, <<"1", BAD>>,
               <<"1", " ", "2">>, <<>> } }
    \cup { LineLinkLongId,
           B(<< <<"L">>, <<"1">>, <<"x">>, Rep("a", 11), <<"-">>, <<"*">> >>),
           B(<< <<"C">>, Rep("1", 21), <<"-">>, <<"2">>, <<"+">>, <<"5">>, <<"*">> >>) }

\* a containment whose position is written with leading zeros
LineZeroPos ==
  B(<< <<"C">>, <<"a">>, <<"+">>, <<"2">>, <<"-">>, <<"0", "0", "7">>,
       <<"*">> >>)

\* header lines whose first field is a Z tag, a tag of another type, or no
\* tag, with a tag or a Z tag after it
HeaderLines ==
  { B(<< <<"H">>, <<"V", "N", ":", "Z", ":", "1", ".", "0">>,
         <<"L", "N", ":", "i", ":", "1">> >>),
    B(<< <<"H">>, <<"L", "N", ":", "i", ":", "1">>,
         <<"V", "N", ":", "Z", ":", "1", ".", "0">> >>),
    B(<< <<"H">>, <<"L", "N", ":", "i", ":", "1">> >>),
    B(<< <<"H">>, <<"x">>, <<"L", "N", ":", "i", ":", "1">> >>) }

\* the lines parse_gfa_line is called on
CallLines ==
  Lines \cup HeaderLines
    \cup UNION { Truncations(l) :
                  l \in {LineHeader, LineSegment11, LineLink, LineContainment,
                         LinePath} }
    \cup PartialLines \cup BadFieldLines \cup IdLines
    \cup { LineTagged, LineZeroPos, <<>>, <<TAB>>,
           <<" ">> \o LineSegment11 \o <<TAB>> }

\* the builders: all(), none(), all().segments(false), none().links(true)
Builders ==
  { all, none, [all EXCEPT !.segments = FALSE], [none EXCEPT !.links = TRUE] }

Parsers ==
  { build(b, tol, N) : b \in Builders, tol \in Tolerances, N \in IdStrategies }

\* the extension of a path: Some(ext) or None
Paths ==
  { [exists |-> ex, ext |-> e] :
      ex \in BOOLEAN, e \in {Ok("gfa"), Ok("gfa2"), Ok("txt"), None} }

NoPath == [exists |-> FALSE, ext |-> None]

\* identifiers as the strategy N holds them
Names(N) ==
  IF N = "usize" THEN { <<"1", "1">>, <<"9", "7">> }
  ELSE { <<"1", "1">>, <<"a">> }

\* records built from valid field values
Records(N) ==
  { [kind |-> "H", version |-> v, optional |-> <<>>] :
      v \in { None, Ok(<<"V", "N", ":", "Z", ":", "1", ".", "0">>),
              Ok(<<"1", ".", "0">>) } }
  \cup { [kind |-> "S", name |-> n, sequence |-> q, optional |-> <<>>] :
           n \in Names(N), q \in { <<"*">>, <<"A", "C", "C", "T", "T">> } }
  \cup { [kind |-> "L", from_segment |-> n, from_orient |-> o,
          to_segment |-> <<"1", "2">>, to_orient |-> "Backward",
          overlap |-> v, optional |-> <<>>] :
           n \in Names(N), o \in {"Forward", "Backward"},
           v \in { <<"*">>, <<"4", "M">> } }
  \cup { [kind |-> "C", container_name |-> n, container_orient |-> "Backward",
          contained_name |-> <<"2">>, contained_orient |-> "Forward",
          overlap |-> <<"1", "0", "0", "M">>, pos |-> p, optional |-> <<>>] :
           n \in Names(N), p \in { <<"0">>, <<"1", "1", "0">> } }
  \cup { [kind |-> "P", path_name |-> <<"1", "4">>,
          segment_names |-> <<"1", "1", "+", ",", "1", "2", "-">>,
          overlaps |-> v, optional |-> <<>>] :
           v \in { <<"*">>, <<"4", "M", ",", "5", "M">> } }

\* records of the GFA2 kinds, told apart by their kind and their id; the
\* container neither reads nor changes the other fields
Records2 ==
  { [kind |-> "H", version |-> v] : v \in { None, Ok(<<"2", ".", "0">>) } }
  \cup { [kind |-> k, id |-> n] :
           k \in {"S", "F", "E", "G", "O", "U"}, n \in { <<"1">>, <<"2">> } }

\* the most calls made on one entry point
MaxCalls == 2

\* P lines whose reference list puts Path::iter to the test
PathLines ==
  { LinePath,
    B(<< <<"P">>, <<"1">>, <<"a", "-">>, <<"*">> >>),
    B(<< <<"P">>, <<"1">>, <<"1", ",", "2">>, <<"4", "M">> >>),
    B(<< <<"P">>, <<"1">>, <<"1", "+", ",", ",", "2", "-">>, <<"*">> >>),
    B(<< <<"P">>, <<"1">>, <<"1", "+", ",">>, <<"*">> >>),
    B(<< <<"P">>, <<"1">>, <<"+">>, <<"*">> >>),
    B(<< <<"P">>, <<"1">>, <<SOH>>, <<"*">> >>),
    B(<< <<"P">>, <<"1">> >>) }

\* reference lists handed to Path::new
SegmentLists ==
  { <<"1", "1", "+", ",", "1", "2", "-", ",", "1", "3", "+">>,
    <<"a", "-">>, <<"1", "1">>, <<"1", "+", ",">>, <<>> }

\* tokens handed to parse_id
IdTokens ==
  { <<"a">>, <<"9", "7">>, <<"7">>, <<"0", "0", "7">>, <<"1", "1">>,
    <<"*">>, <<"4", "2">>, Rep("1", 20), Rep("0", 20) \o <<"1">>,
    <<>>, <<" ">>, <<"1", SOH>>, <<"1", " ", "2">>, <<"1", BAD>>,
    Rep("a", 11) }

\* a segment named by the digits ds
LineSegmentNamed(ds) == B(<< <<"S">>, ds, <<"*">> >>)

\* the lines the source of a GFAParserLineIter yields
IterLines ==
  { LineSegmentNamed(<<"1">>), LineSegmentNamed(<<"2">>), LineSegment11,
    LineSegmentNamed(<<"0", "0", "7">>), LineHeader, LineLink, LineUnknown,
    LineShortSegment, LineLongId }

\* reference lists handed to GroupO::new
OGroupLists ==
  { <<"A", "+", " ", "X", "+", " ", "B", "-">>, <<"1", "+">>,
    <<"5", "3", "_", "3", "8", "+", " ", "5", "0", "-">>,
    <<"1", "+", " ", " ", "2", "-">>, <<"1", " ", "2">>, <<>>,
    <<"1", "+", " ">> \o Rep("a", 11) \o <<"+">> }

\* identifier lists handed to GroupU::new
UGroupLists ==
  { <<"1", "6", " ", "2", "4">>, <<"S", "G", "1", " ", "*">>,
    <<"1", " ", " ", "2">>, <<>>, <<"1", " ">> \o Rep("a", 11) }

\* tokens handed to OptField::parse: one or more of each type, and two that
\* are no tag
TagTokens ==
  { <<"I", "J", ":", "A", ":", "x">>,
    <<"L", "N", ":", "i", ":", "1", "2", "3">>,
    <<"L", "N", ":", "i", ":", "-", "5">>,
    <<"N", "M", ":", "f", ":", "1", ".", "5">>,
    <<"V", "N", ":", "Z", ":", "1", ".", "0">>,
    <<"U", "R", ":", "Z", ":", "a", " ", "b">>,
    <<"S", "H", ":", "H", ":", "0", "A">>,
    <<"A", "B", ":", "B", ":", "I", "1", ",", "2">>,
    <<"L", "N", ":", "i", ":", "x">>,
    <<"1", ".", "0">> }

\* values handed to OptField::new, as the test segment_parser builds them
TagValues ==
  { OptField_new(<<"I", "J">>, "A", <<"x">>),
    OptField_new(<<"L", "N">>, "i", <<"1", "2", "3">>),
    OptField_new(<<"N", "M">>, "f", <<"1", ".", "5">>),
    OptField_new(<<"U", "R">>, "Z", <<"a", " ", "b">>),
    OptField_new(<<"S", "H">>, "H", <<"0", "A">>),
    OptField_new(<<"A", "B">>, "B", <<"I", "1", ",", "2">>) }

\* tokens handed to parse_opt_id
OptTokens ==
  { <<"*">>, <<"4", "2">>, <<"1", "1">>, <<"a">>, <<"*", "*">>, <<>>,
    <<"1", " ", "2">>, <<"1", SOH>>, Rep("a", 11) }

\* tokens handed to parse_ref
RefTokens ==
  { <<"1", "1", "+">>, <<"a", "-">>, <<"1", "1">>, <<"+">>, <<>>,
    <<"1", "+", "2">>, <<"1", " ", "2", "+">>, <<"1", "+", " ">>,
    <<SOH, "1", "+">>, <<"1", SOH, "+">>, Rep("a", 11) \o <<"+">>,
    <<"0", "0", "7", "-">>, <<"0", "+">>, <<"1", " ", "+">>,
    Rep("1", 20) \o <<"+">>, Rep("1", 19) \o <<"-">>,
    Rep("9", 20) \o <<"-">> }

-----------------------------------------------------------------------------
(* parser_gfa1.rs: parse_lines and parse_file *)

\* LoopBody with a skipped line leaving a record of its kind behind
LoopBody_partial(line) ==
  LET r == parse_gfa_line(parser, line) IN
    /\ seen' = Append(seen, line)
    /\ item' = r
    /\ IF IsOk(r)
       THEN /\ gfa' = insert_line(gfa, r.val)
            /\ UNCHANGED <<pc, err>>
       ELSE IF IsPanic(r)
       THEN /\ pc' = "panic"
            /\ UNCHANGED <<gfa, err>>
       ELSE IF can_safely_continue(r.val, parser.tolerance)
       THEN /\ gfa' = [gfa EXCEPT !.segments = Append(@, [kind |-> "S"])]
            /\ UNCHANGED <<pc, err>>
       ELSE /\ pc' = "err"
            /\ err' = r.val
            /\ UNCHANGED gfa
    /\ UNCHANGED <<parser, entry, path>>

\* parse_lines as a function of the lines read so far: a run is where the
\* call stands (in the loop, returned Err, panicked), its collection and its
\* error
NewRun == [pc |-> "loop", gfa |-> GFA_new, err |-> NoError]

\* the arm of the match of parse_lines for the result r of parse_gfa_line
match_result_negated(p, run, r) ==
  IF IsOk(r) THEN [run EXCEPT !.gfa = insert_line(run.gfa, r.val)]
  ELSE IF IsPanic(r) THEN [run EXCEPT !.pc = "panic"]
  ELSE IF ~can_safely_continue(r.val, p.tolerance) THEN run
  ELSE [run EXCEPT !.pc = "err", !.err = r.val]

match_result(p, run, r) ==
  IF IsOk(r) THEN [run EXCEPT !.gfa = insert_line(run.gfa, r.val)]
  ELSE IF IsPanic(r) THEN [run EXCEPT !.pc = "panic"]
  ELSE IF can_safely_continue(r.val, p.tolerance) THEN run
  ELSE [run EXCEPT !.pc = "err", !.err = r.val]

\* one turn of the for loop of parse_lines; a call that returned or panicked
\* reads no more lines
parse_lines_turn(p, run, line) ==
  IF run.pc # "loop" THEN run
  ELSE match_result(p, run, parse_gfa_line(p, line))

\* the parser built like p but with error_tolerance(tol)
error_tolerance(p, tol) == [p EXCEPT !.tolerance = tol]

\* one turn of the for loop, shared by parse_lines and parse_file
LoopBody(line) ==
  \E r \in {parse_gfa_line(parser, line)} :
    /\ seen' = Append(seen, line)
    /\ item' = r
    /\ IF IsOk(r)
       THEN /\ gfa' = insert_line(gfa, r.val)
            /\ UNCHANGED <<pc, err>>
       ELSE IF IsPanic(r)
       THEN /\ pc' = "panic"
            /\ UNCHANGED <<gfa, err>>
       ELSE IF can_safely_continue(r.val, parser.tolerance)
       THEN UNCHANGED <<gfa, pc, err>>
       ELSE /\ pc' = "err"
            /\ err' = r.val
            /\ UNCHANGED gfa
    /\ UNCHANGED <<parser, entry, path>>

\* parse_lines: the iterator yields one more line
ParseLinesStep ==
  /\ entry = "parse_lines"
  /\ pc = "loop"
  /\ Len(seen) < MaxLines
  /\ \E line \in Lines : LoopBody(line)

\* parse_lines: the iterator is exhausted, Ok(gfa)
ParseLinesReturn ==
  /\ entry = "parse_lines"
  /\ pc = "loop"
  /\ pc' = "ok"
  /\ UNCHANGED <<parser, entry, path, gfa, err, seen, item>>

\* parse_file: File::open, then the check of the extension
ParseFileOpen ==
  /\ entry = "parse_file"
  /\ pc = "open"
  /\ IF ~path.exists
     THEN pc' = "err" /\ err' = IoError
     ELSE IF IsNone(path.ext)
     THEN pc' = "panic" /\ UNCHANGED err  \* extension() ... .unwrap()
     ELSE IF path.ext.val \in {"gfa2", "gfa"}
     THEN pc' = "loop" /\ UNCHANGED err
     ELSE pc' = "err" /\ err' = ExtensionError
  /\ UNCHANGED <<parser, entry, path, gfa, seen, item>>

\* parse_file: byte_lines yields one more line
ParseFileStep ==
  /\ entry = "parse_file"
  /\ pc = "loop"
  /\ Len(seen) < MaxLines
  /\ \E line \in Lines : LoopBody(line)

\* parse_file: reading the next line fails, line? returns the I/O error
ParseFileReadError ==
  /\ entry = "parse_file"
  /\ pc = "loop"
  /\ pc' = "err"
  /\ err' = IoError
  /\ UNCHANGED <<parser, entry, path, gfa, seen, item>>

\* parse_file: end of file, Ok(gfa)
ParseFileReturn ==
  /\ entry = "parse_file"
  /\ pc = "loop"
  /\ pc' = "ok"
  /\ UNCHANGED <<parser, entry, path, gfa, err, seen, item>>

\* how a call of parse_gfa_line ends
Outcome(r) == IF IsOk(r) THEN "ok" ELSE IF IsPanic(r) THEN "panic" ELSE "err"

\* a call of parse_gfa_line on one line
ParseGfaLineCall ==
  /\ entry = "parse_gfa_line"
  /\ pc = "call"
  /\ \E line \in CallLines :
       \E r \in {parse_gfa_line(parser, line)} :
         /\ seen' = <<line>>
         /\ item' = r
         /\ pc' = Outcome(r)
         /\ err' = IF IsErr(r) THEN r.val ELSE NoError
  /\ UNCHANGED <<parser, entry, path, gfa>>

\* a record is printed: to_string()
DisplayLine ==
  /\ entry = "display"
  /\ pc = "print"
  /\ seen' = Append(seen, Line_fmt(item.val))
  /\ pc' = IF seen = <<>> THEN "call" ELSE "ok"
  /\ UNCHANGED <<parser, entry, path, gfa, err, item>>

\* the printed line is parsed again with parse_gfa_line
ParsePrinted ==
  /\ entry = "display"
  /\ pc = "call"
  /\ \E r \in {parse_gfa_line(parser, seen[1])} :
       /\ item' = r
       /\ pc' = IF IsOk(r) THEN "print" ELSE Outcome(r)
       /\ err' = IF IsErr(r) THEN r.val ELSE NoError
  /\ UNCHANGED <<parser, entry, path, gfa, seen>>

\* a call of N::parse_id on one token
ParseIdCall ==
  /\ entry = "parse_id"
  /\ pc = "call"
  /\ Len(seen) < MaxCalls
  /\ \E token \in IdTokens :
       \E r \in {parse_id(parser.N, token)} :
         /\ seen' = Append(seen, [input |-> token, output |-> r])
         /\ item' = r
         /\ pc' = IF IsPanic(r) THEN "panic" ELSE "call"
  /\ UNCHANGED <<parser, entry, path, gfa, err>>

\* the same lines are read by parse_lines under each tolerance, flags and
\* identifier strategy being those of parser: gfa holds one run per tolerance
TolerancesStep ==
  /\ entry = "tolerances"
  /\ pc = "loop"
  /\ Len(seen) < MaxLines
  /\ \E line \in Lines :
       /\ seen' = Append(seen, line)
       /\ gfa' = [tol \in Tolerances |->
                    parse_lines_turn(error_tolerance(parser, tol), gfa[tol], line)]
  /\ UNCHANGED <<parser, entry, path, pc, err, item>>

\* the iterator is exhausted: the calls still in the loop return Ok(gfa)
TolerancesReturn ==
  /\ entry = "tolerances"
  /\ pc = "loop"
  /\ pc' = "ok"
  /\ gfa' = [tol \in Tolerances |->
               IF gfa[tol].pc = "loop" THEN [gfa[tol] EXCEPT !.pc = "ok"]
               ELSE gfa[tol]]
  /\ UNCHANGED <<parser, entry, path, err, seen, item>>

\* a tagged value is parsed from a token
TagParse ==
  /\ entry = "tag"
  /\ pc = "call"
  /\ \E token \in TagTokens :
       \E v \in {OptField_parse(token)} :
         /\ item' = v
         /\ pc' = IF IsOk(v) THEN "value" ELSE "none"
  /\ UNCHANGED <<parser, entry, path, gfa, err, seen>>

\* a tagged value is built with OptField::new
TagNew ==
  /\ entry = "tag"
  /\ pc = "call"
  /\ \E v \in TagValues : item' = Ok(v)
  /\ pc' = "value"
  /\ UNCHANGED <<parser, entry, path, gfa, err, seen>>

\* the tagged value is printed: to_string()
TagRender ==
  /\ entry = "tag"
  /\ pc = "value"
  /\ seen' = <<OptField_fmt(item.val)>>
  /\ pc' = "token"
  /\ UNCHANGED <<parser, entry, path, gfa, err, item>>

\* the printed token is parsed again
TagReparse ==
  /\ entry = "tag"
  /\ pc = "token"
  /\ seen' = Append(seen, OptField_parse(seen[1]))
  /\ pc' = "ok"
  /\ UNCHANGED <<parser, entry, path, gfa, err, item>>

\* a group is built with GroupO::new or GroupU::new
GroupNew ==
  /\ entry = "group_iter"
  /\ pc = "call"
  /\ \/ \E list \in OGroupLists : item' = Ok(GroupO_new(<<"P", "1">>, list, <<>>))
     \/ \E list \in UGroupLists : item' = Ok(GroupU_new(<<"S", "G", "1">>, list, <<>>))
  /\ pc' = "built"
  /\ UNCHANGED <<parser, entry, path, gfa, err, seen>>

\* group.iter() driven to its end; &self leaves the group as it is, and a
\* panic ends the thread
GroupIter ==
  /\ entry = "group_iter"
  /\ pc = "built"
  /\ Len(seen) < MaxCalls
  /\ \A i \in 1..Len(seen) : seen[i].end = "done"
  /\ seen' = Append(seen, Group_iter(parser.N, item.val))
  /\ UNCHANGED <<parser, entry, path, gfa, pc, err, item>>

\* a call of next() on a GFAParserLineIter: the source I yields a line or
\* None, and, I being any Iterator, may yield a line after a None
LineIterNext ==
  /\ entry = "line_iter"
  /\ pc = "next"
  /\ Len(seen) < MaxLines + 1
  /\ \E next_line \in { Ok(l) : l \in IterLines } \cup {None} :
       \E r \in {LineIter_next(parser, next_line)} :
         /\ seen' = Append(seen, [input |-> next_line, output |-> r])
         /\ item' = r
         /\ pc' = IF IsPanic(r) THEN "panic" ELSE "next"
  /\ UNCHANGED <<parser, entry, path, gfa, err>>

\* a call of N::parse_opt_id on one token
ParseOptIdCall ==
  /\ entry = "parse_opt_id"
  /\ pc = "call"
  /\ Len(seen) < MaxCalls
  /\ \E token \in OptTokens :
       \E r \in {parse_opt_id(parser.N, token)} :
         /\ seen' = Append(seen, [input |-> token, output |-> r])
         /\ item' = r
         /\ pc' = IF IsPanic(r) THEN "panic" ELSE "call"
  /\ UNCHANGED <<parser, entry, path, gfa, err>>

\* a call of N::parse_ref on one token
ParseRefCall ==
  /\ entry = "parse_ref"
  /\ pc = "call"
  /\ Len(seen) < MaxCalls
  /\ \E token \in RefTokens :
       \E r \in {parse_ref(parser.N, token)} :
         /\ seen' = Append(seen, [input |-> token, output |-> r])
         /\ item' = r
         /\ pc' = IF IsPanic(r) THEN "panic" ELSE "call"
  /\ UNCHANGED <<parser, entry, path, gfa, err>>

\* a Path is parsed from a P line
PathParse ==
  /\ entry = "iter"
  /\ pc = "call"
  /\ \E line \in PathLines :
       \E r \in {parse_gfa_line(parser, line)} :
         /\ item' = r
         /\ pc' = IF IsOk(r) THEN "parsed" ELSE Outcome(r)
         /\ err' = IF IsErr(r) THEN r.val ELSE NoError
  /\ UNCHANGED <<parser, entry, path, gfa, seen>>

\* a Path is built with Path::new
PathNew ==
  /\ entry = "iter"
  /\ pc = "call"
  /\ \E list \in SegmentLists :
       item' = Ok(Path_new(<<"1", "4">>, list, <<"*">>, <<>>))
  /\ pc' = "built"
  /\ UNCHANGED <<parser, entry, path, gfa, err, seen>>

\* path.iter() driven to its end; &self leaves the Path as it is, and a
\* panic ends the thread
PathIter ==
  /\ entry = "iter"
  /\ pc \in {"parsed", "built"}
  /\ Len(seen) < MaxCalls
  /\ \A i \in 1..Len(seen) : seen[i].end = "done"
  /\ seen' = Append(seen, Path_iter(parser.N, item.val))
  /\ UNCHANGED <<parser, entry, path, gfa, pc, err, item>>

\* gfa.insert_line(line) on a GFA
InsertLine ==
  /\ entry = "GFA"
  /\ pc = "insert"
  /\ Len(seen) < MaxLines
  /\ \E line \in Records(parser.N) :
       /\ gfa' = insert_line(gfa, line)
       /\ seen' = Append(seen, line)
  /\ UNCHANGED <<parser, entry, path, pc, err, item>>

\* gfa.lines_iter() and then gfa.lines_into_iter(), each driven to its end
LinesIter ==
  /\ entry = "GFA"
  /\ pc = "insert"
  /\ item' = Ok([by_ref |-> lines_iter(gfa), by_value |-> lines_into_iter(gfa)])
  /\ pc' = "ok"
  /\ UNCHANGED <<parser, entry, path, gfa, err, seen>>

\* gfa2.insert_line(line) on a GFA2
InsertLine2 ==
  /\ entry = "GFA2"
  /\ pc = "insert"
  /\ Len(seen) < MaxLines
  /\ \E line \in Records2 :
       /\ gfa' = GFA2_insert_line(gfa, line)
       /\ seen' = Append(seen, line)
  /\ UNCHANGED <<parser, entry, path, pc, err, item>>

\* gfa2.lines_iter() and then gfa2.lines_into_iter(), each driven to its end
LinesIter2 ==
  /\ entry = "GFA2"
  /\ pc = "insert"
  /\ item' = Ok([by_ref |-> GFA2_lines_iter(gfa),
                 by_value |-> GFA2_lines_into_iter(gfa)])
  /\ pc' = "ok"
  /\ UNCHANGED <<parser, entry, path, gfa, err, seen>>

Init ==
  /\ parser \in Parsers
  /\ err = NoError
  /\ seen = <<>>
  /\ \/ entry = "parse_lines" /\ path = NoPath /\ pc = "loop" /\ item = None
     \/ entry = "parse_file" /\ path \in Paths /\ pc = "open" /\ item = None
     \/ entry = "parse_gfa_line" /\ path = NoPath /\ pc = "call" /\ item = None
     \/ /\ entry = "display" /\ path = NoPath /\ pc = "print"
        /\ parser \in { build(all, tol, N) : tol \in Tolerances, N \in IdStrategies }
        /\ \E r \in Records(parser.N) : item = Ok(r)
     \/ /\ entry \in {"parse_id", "parse_opt_id", "parse_ref", "iter",
                     "group_iter", "tag"}
        /\ path = NoPath /\ pc = "call" /\ item = None
        /\ parser \in { build(all, "Pedantic", N) : N \in IdStrategies }
     \/ /\ entry = "line_iter"
        /\ path = NoPath /\ pc = "next" /\ item = None
        /\ parser \in { build(all, tol, N) : tol \in Tolerances, N \in IdStrategies }
     \/ /\ entry = "tolerances"
        /\ path = NoPath /\ pc = "loop" /\ item = None
        /\ parser.tolerance = "Pedantic"
     \/ /\ entry \in {"GFA", "GFA2"}
        /\ path = NoPath /\ pc = "insert" /\ item = None
        /\ parser \in { build(all, "Pedantic", N) : N \in IdStrategies }
  /\ gfa = IF entry = "GFA2" THEN GFA2_new
           ELSE IF entry = "tolerances" THEN [tol \in Tolerances |-> NewRun]
           ELSE GFA_new

Next ==
  \/ ParseLinesStep
  \/ ParseLinesReturn
  \/ ParseFileOpen
  \/ ParseFileStep
  \/ ParseFileReadError
  \/ ParseFileReturn
  \/ ParseGfaLineCall
  \/ DisplayLine
  \/ ParsePrinted
  \/ ParseIdCall
  \/ TagParse
  \/ TagNew
  \/ TagRender
  \/ TagReparse
  \/ TolerancesStep
  \/ TolerancesReturn
  \/ GroupNew
  \/ GroupIter
  \/ LineIterNext
  \/ ParseOptIdCall
  \/ ParseRefCall
  \/ PathParse
  \/ PathNew
  \/ PathIter
  \/ InsertLine
  \/ LinesIter
  \/ InsertLine2
  \/ LinesIter2

Spec == Init /\ [][Next]_vars

-----------------------------------------------------------------------------
(* Vocabulary of the properties *)

\* the call runs one of the two loops
InLoop == entry \in {"parse_lines", "parse_file"}

\* the call is over
Returned == pc \in {"ok", "err", "panic"}

\* the tokens of a line as parse_gfa_line sees them
Fields(line) == SplitStr(Trim(line), TAB)

\* the line is one the parser accepts
Valid(line) == IsOk(parse_gfa_line(parser, line))

\* the positions of s that hold a line the parser does not accept
Malformed(s) == { i \in 1..Len(s) : ~Valid(s[i]) }

\* the records of the accepted lines of s whose kind is k, in the order of s
RECURSIVE RecordsOfKind(_, _)
RecordsOfKind(s, k) ==
  IF s = <<>> THEN <<>>
  ELSE LET r == parse_gfa_line(parser, Head(s)) IN
    (IF IsOk(r) /\ r.val.kind = k THEN <<r.val>> ELSE <<>>)
      \o RecordsOfKind(Tail(s), k)

\* g holds exactly the records of the accepted lines of s
HoldsValidLines(g, s) ==
  /\ g.headers = RecordsOfKind(s, "H")
  /\ g.segments = RecordsOfKind(s, "S")
  /\ g.links = RecordsOfKind(s, "L")
  /\ g.containments = RecordsOfKind(s, "C")
  /\ g.paths = RecordsOfKind(s, "P")

\* the switch of the kind letter hdr is on
SwitchOn(hdr) ==
  \/ hdr = <<"H">> /\ parser.headers
  \/ hdr = <<"S">> /\ parser.segments
  \/ hdr = <<"L">> /\ parser.links
  \/ hdr = <<"C">> /\ parser.containments
  \/ hdr = <<"P">> /\ parser.paths

\* a token of [!-~]+ whose digit string is longer than the cap or out of the
\* range of usize
Overflows(id) ==
  /\ id # <<>>
  /\ \A i \in 1..Len(id) : id[i] \in Printable
  /\ LET res == EncodeChars(id).val IN
       Len(res) > MaxDigits \/ ~FitsUsize(res)

\* a token of [!-~]+ that the dense encoding can hold
Encodable(id) ==
  /\ id # <<>>
  /\ \A i \in 1..Len(id) : id[i] \in Printable
  /\ ~Overflows(id)

\* an identifier of an S, L or C line overflows the dense encoding: the first
\* one, or the second one behind a first one and an orientation that parse
IdOverflows(line) ==
  LET fs == Fields(line) IN
    /\ parser.N = "usize"
    /\ fs[1] \in {<<"S">>, <<"L">>, <<"C">>}
    /\ SwitchOn(fs[1])
    /\ \/ Len(fs) >= 2 /\ Overflows(fs[2])
       \/ /\ fs[1] # <<"S">>
          /\ Len(fs) >= 4
          /\ Encodable(fs[2])
          /\ IsOk(parse_orientation(Tail(fs), 2))
          /\ Overflows(fs[4])

-----------------------------------------------------------------------------
(* C1 *)

\* C1: when exactly one line of the input of parse_lines is malformed and
\* every other line is valid, Pedantic returns an error, IgnoreAll returns
\* the collection of the records of the valid lines, and Safe returns that
\* collection if the failure is "unknown line type" or "empty line" and an
\* error otherwise.
C1_OneMalformedLine ==
  (entry = "parse_lines" /\ Returned /\ Cardinality(Malformed(seen)) = 1) =>
    LET i == CHOOSE i \in Malformed(seen) : TRUE
        r == parse_gfa_line(parser, seen[i])
        recoverable ==
          IsErr(r) /\ r.val.kind \in {"UnknownLineType", "EmptyLine"}
        collected == pc = "ok" /\ HoldsValidLines(gfa, seen)
    IN CASE parser.tolerance = "Pedantic" -> pc = "err"
         [] parser.tolerance = "IgnoreAll" -> collected
         [] parser.tolerance = "Safe" ->
              IF recoverable THEN collected ELSE pc = "err"

-----------------------------------------------------------------------------
(* C2 *)

\* C2: under Pedantic the loops stop at the first line that fails: that line
\* is the last one taken from the source, the call returns the error of that
\* line, and no collection is returned.
C2_PedanticStopsAtFirstFailure ==
  (InLoop /\ parser.tolerance = "Pedantic" /\ Malformed(seen) # {}) =>
    /\ Malformed(seen) = {Len(seen)}
    /\ pc = "err"
    /\ IsErr(item)
    /\ err = item.val

-----------------------------------------------------------------------------
(* C3 *)

\* C3: under IgnoreAll, with either identifier strategy, no line aborts
\* parse_lines: the call is still reading or has returned Ok(gfa).
C3_IgnoreAllNeverAborts ==
  (entry = "parse_lines" /\ parser.tolerance = "IgnoreAll") =>
    pc \in {"loop", "ok"}

-----------------------------------------------------------------------------
(* C4 *)

\* a call of parse_gfa_line has returned
Called == entry = "parse_gfa_line" /\ pc # "call"

\* C4: a line whose first field is no kind letter, or the letter of a kind
\* whose switch is off, makes parse_gfa_line return "unknown line type"; so
\* the parser of GFAParserBuilder::none() returns a record for no line.
C4_DisabledKindIsUnknown ==
  (Called /\ ~SwitchOn(Fields(seen[1])[1])) =>
    (IsErr(item) /\ item.val = UnknownLineType)

-----------------------------------------------------------------------------
(* C5 *)

\* C5: a step of the loop that reads a line which fails leaves the
\* collection as it was before the line.
C5_FailedLineLeavesCollection ==
  [][(InLoop /\ seen' # seen /\ ~IsOk(item')) => gfa' = gfa]_vars

\* a line has failed after a record was collected, and the loop goes on
C5_Witness ==
  /\ entry = "parse_lines"
  /\ pc = "loop"
  /\ Len(seen) >= 2
  /\ IsErr(item)
  /\ item.val.field = "InvalidField(Overlap)"
  /\ gfa.segments # <<>>

-----------------------------------------------------------------------------
(* C6 *)

\* the number of fields after the kind letter that the grammar of spec.md
\* section 6 requires
RequiredFields(hdr) ==
  CASE hdr = <<"H">> -> 0
    [] hdr = <<"S">> -> 2
    [] hdr = <<"L">> -> 5
    [] hdr = <<"C">> -> 6
    [] hdr = <<"P">> -> 3

\* the line is the first fields of a line the parser accepts, and ends
\* before the last required field of its kind
EndsEarly(line) ==
  LET fs == Fields(line) IN
    /\ fs[1] \in {<<"H">>, <<"S">>, <<"L">>, <<"C">>, <<"P">>}
    /\ SwitchOn(fs[1])
    /\ Len(fs) - 1 < RequiredFields(fs[1])
    /\ \E v \in CallLines :
         /\ Valid(v)
         /\ Len(Fields(v)) > Len(fs)
         /\ SubSeq(Fields(v), 1, Len(fs)) = fs

\* C6: a line that ends before all the required fields of its kind fails
\* with "missing fields", wrapped as the invalid-line error of the line.
C6_ShortLineMissingFields ==
  (Called /\ EndsEarly(seen[1])) =>
    (IsErr(item) /\ item.val = invalid_line("MissingFields", seen[1]))

\* a containment line that stops before its overlap has been refused
C6_Witness ==
  /\ Called
  /\ EndsEarly(seen[1])
  /\ Fields(seen[1])[1] = <<"C">>
  /\ Len(Fields(seen[1])) = 6
  /\ parser.N = "usize"
  /\ pc = "err"
  /\ err.field = "MissingFields"

-----------------------------------------------------------------------------
(* C7 *)

\* the grammars of the validated fields, matched against the whole field
IsSequence(s) ==
  s = <<"*">> \/ (s # <<>> /\ \A i \in 1..Len(s) : s[i] \in SeqClass)

IsOverlap(s) == s = <<"*">> \/ (s # <<>> /\ CigarsEnd(s, 1) = Len(s) + 1)

IsPathOverlap(s) ==
  \/ s = <<"*">>
  \/ /\ CigarEnd(s, 1) # NoMatch
     /\ CigarListEnd(s, CigarEnd(s, 1)) = Len(s) + 1

IsSegmentNames(s) ==
  /\ s # <<>>
  /\ \A i \in 1..Len(s) : s[i] \in Printable
  /\ Head(s) # "," /\ s[Len(s)] # ","
  /\ \A i \in 1..(Len(s) - 1) : ~(s[i] = "," /\ s[i + 1] = ",")

\* the answer of parse_gfa_line that refuses the field named f
Refused(f) ==
  IsErr(item) /\ item.val = invalid_line("InvalidField(" \o f \o ")", seen[1])

\* C7: a sequence, overlap, path-overlap or segment-name-list field that is
\* present, is reached by the parser, and does not match its grammar as a
\* whole makes the line fail with the "invalid field" error of that field.
C7_PartialFieldRejected ==
  Called =>
    LET fs == Tail(Fields(seen[1]))
        hdr == Fields(seen[1])[1]
        N == parser.N
    IN
      /\ (/\ hdr = <<"S">> /\ SwitchOn(hdr) /\ Len(fs) >= 2
          /\ IsOk(parse_next(N, fs, 1))
          /\ ~IsSequence(fs[2]))
           => Refused("Sequence")
      /\ (/\ hdr = <<"L">> /\ SwitchOn(hdr) /\ Len(fs) >= 5
          /\ IsOk(parse_next(N, fs, 1)) /\ IsOk(parse_orientation(fs, 2))
          /\ IsOk(parse_next(N, fs, 3)) /\ IsOk(parse_orientation(fs, 4))
          /\ ~IsOverlap(fs[5]))
           => Refused("Overlap")
      /\ (/\ hdr = <<"C">> /\ SwitchOn(hdr) /\ Len(fs) >= 6
          /\ IsOk(parse_next(N, fs, 1)) /\ IsOk(parse_orientation(fs, 2))
          /\ IsOk(parse_next(N, fs, 3)) /\ IsOk(parse_orientation(fs, 4))
          /\ IsOk(parse_pos(fs, 5))
          /\ ~IsOverlap(fs[6]))
           => Refused("Overlap")
      /\ (/\ hdr = <<"P">> /\ SwitchOn(hdr) /\ Len(fs) >= 2
          /\ IsOk(parse_next("BString", fs, 1))
          /\ ~IsSegmentNames(fs[2]))
           => Refused("Segment names")
      /\ (/\ hdr = <<"P">> /\ SwitchOn(hdr) /\ Len(fs) >= 3
          /\ IsOk(parse_next("BString", fs, 1))
          /\ IsSegmentNames(fs[2])
          /\ ~IsPathOverlap(fs[3]))
           => Refused("Overlap")

-----------------------------------------------------------------------------
(* C8 *)

\* C8: a record that is printed, parsed with parse_gfa_line and printed
\* again gives the same line twice, and the parse does not fail.
C8_RoundTrip ==
  entry = "display" =>
    /\ pc \notin {"err", "panic"}
    /\ pc = "ok" => seen[2] = seen[1]

-----------------------------------------------------------------------------
(* C9 *)

\* C9: with the dense-integer strategy, a line with an identifier that has
\* more than 20 digits once encoded, or is out of the range of usize, makes
\* parse_gfa_line return an error value.
C9_OverflowIsErrorValue ==
  (Called /\ IdOverflows(seen[1])) =>
    (IsErr(item) /\ item.val.kind = "InvalidLine")

-----------------------------------------------------------------------------
(* C10 *)

\* C10: with the dense-integer strategy, under every tolerance, a line with
\* an identifier that overflows is the last line the loop reads, and the
\* call neither goes on nor returns a collection.
C10_OverflowAbortsParse ==
  InLoop =>
    \A i \in 1..Len(seen) :
      IdOverflows(seen[i]) => (i = Len(seen) /\ pc \notin {"loop", "ok"})

\* under IgnoreAll a link to an overflowing name has ended a parse that had
\* collected a record
C10_Witness ==
  /\ entry = "parse_lines"
  /\ parser.tolerance = "IgnoreAll"
  /\ Len(seen) >= 2
  /\ seen[Len(seen)] = LineLinkLongId
  /\ IdOverflows(seen[Len(seen)])
  /\ gfa.segments # <<>>
  /\ pc = "panic"

-----------------------------------------------------------------------------
(* C11 *)

\* C11: with the usize strategy two different identifiers, each of [!-~]+
\* and within the cap of the digit string, never get the same integer from
\* parse_id.
C11_EncodingInjective ==
  (entry = "parse_id" /\ parser.N = "usize") =>
    \A i, j \in 1..Len(seen) :
      ( /\ i < j
        /\ seen[i].input # seen[j].input
        /\ Encodable(seen[i].input)
        /\ Encodable(seen[j].input) ) =>
          seen[i].output # seen[j].output

-----------------------------------------------------------------------------
(* C12 *)

\* the token is outside the grammar of the entry point: for parse_id it is
\* empty or holds a byte outside [!-~], for parse_ref it does not end in a
\* sign
OutsideGrammar(token) ==
  IF entry = "parse_id"
  THEN token = <<>> \/ \E i \in 1..Len(token) : token[i] \notin Printable
  ELSE token = <<>> \/ token[Len(token)] \notin Signs

\* C12: with either strategy, parse_id and parse_ref return None for a token
\* outside their grammar: the token is accepted neither in full nor in part,
\* and the call does not panic.
C12_OutsideGrammarIsNone ==
  (entry \in {"parse_id", "parse_ref"}) =>
    \A i \in 1..Len(seen) :
      OutsideGrammar(seen[i].input) => IsNone(seen[i].output)

-----------------------------------------------------------------------------
(* C13 *)

\* one reference: at least one identifier byte, then a sign
IsReference(token) ==
  /\ Len(token) >= 2
  /\ token[Len(token)] \in Signs
  /\ \A i \in 1..(Len(token) - 1) : token[i] \in Printable

\* one or more references separated by commas
IsOrientedList(s) ==
  \A i \in 1..Len(SplitStr(s, ",")) : IsReference(SplitStr(s, ",")[i])

\* C13: a P line whose reference list is reached and is not a comma-separated
\* list of references fails with InvalidField("Segment names"), so a Path
\* that parse_gfa_line returned is iterated to its end without a panic.
C13_PathListIsOriented ==
  /\ Called =>
       LET fs == Fields(seen[1]) IN
         ( /\ fs[1] = <<"P">> /\ SwitchOn(fs[1]) /\ Len(fs) >= 3
           /\ IsOk(parse_next("BString", fs, 2))
           /\ ~IsOrientedList(fs[3]) ) => Refused("Segment names")
  /\ (entry = "iter" /\ pc = "parsed") =>
       \A i \in 1..Len(seen) : seen[i].end = "done"

-----------------------------------------------------------------------------
(* C14 *)

\* the pair that a reference stands for
PairOf(token) ==
  << SubSeq(token, 1, Len(token) - 1),
     IF token[Len(token)] = "+" THEN "Forward" ELSE "Backward" >>

\* one pair per token of the list s, in the order of s
PairsOf(s) ==
  [k \in 1..Len(SplitStr(s, ",")) |-> PairOf(SplitStr(s, ",")[k])]

\* C14: on a Path<BString> whose stored list is a comma-separated list of
\* references, every call of iter() comes to its end and yields one pair per
\* token in stored order, the token without its last byte with Forward for
\* + and Backward for -; and a call of iter() leaves the Path as it was.
C14_PathIterYields ==
  /\ [](( /\ entry = "iter" /\ pc \in {"parsed", "built"}
          /\ parser.N = "BString"
          /\ IsOrientedList(item.val.segment_names) ) =>
            \A i \in 1..Len(seen) :
              /\ seen[i].end = "done"
              /\ seen[i].yielded = PairsOf(item.val.segment_names))
  /\ [][(entry = "iter" /\ pc \in {"parsed", "built"}) => item' = item]_vars

\* iter() was called twice on the Path of the test path_iter
C14_Witness ==
  /\ entry = "iter" /\ pc = "built" /\ parser.N = "BString"
  /\ item.val.segment_names
       = <<"1", "1", "+", ",", "1", "2", "-", ",", "1", "3", "+">>
  /\ Len(seen) = 2
  /\ Len(seen[2].yielded) = 3

-----------------------------------------------------------------------------
(* C15 *)

\* an identifier: one or more bytes of [!-~]
IsId(t) == t # <<>> /\ \A i \in 1..Len(t) : t[i] \in Printable

\* an orientation field
IsOrient(t) == t \in {<<"+">>, <<"-">>}

\* the orientation that the field t names
OrientOf(t) == IF t = <<"+">> THEN "Forward" ELSE "Backward"

\* a position: decimal digits, in the range of usize
IsPos(t) == t # <<>> /\ (\A i \in 1..Len(t) : t[i] \in DigitSet) /\ FitsUsize(t)

\* C15: with the BString strategy a valid S, L or C line of an enabled kind
\* gives a record that holds every field as it is written and in the
\* documented order, + as Forward and - as Backward, the position as its
\* decimal value, and an empty optional collection when no tag follows.
C15_FieldsVerbatim ==
  (Called /\ parser.N = "BString") =>
    LET fs == Fields(seen[1])
        r == item.val
    IN
      /\ ( /\ fs[1] = <<"S">> /\ SwitchOn(fs[1]) /\ Len(fs) >= 3
           /\ IsId(fs[2]) /\ IsSequence(fs[3]) ) =>
             /\ IsOk(item) /\ r.kind = "S"
             /\ r.name = fs[2] /\ r.sequence = fs[3]
             /\ Len(fs) = 3 => r.optional = <<>>
      /\ ( /\ fs[1] = <<"L">> /\ SwitchOn(fs[1]) /\ Len(fs) >= 6
           /\ IsId(fs[2]) /\ IsOrient(fs[3])
           /\ IsId(fs[4]) /\ IsOrient(fs[5]) /\ IsOverlap(fs[6]) ) =>
             /\ IsOk(item) /\ r.kind = "L"
             /\ r.from_segment = fs[2] /\ r.from_orient = OrientOf(fs[3])
             /\ r.to_segment = fs[4] /\ r.to_orient = OrientOf(fs[5])
             /\ r.overlap = fs[6]
             /\ Len(fs) = 6 => r.optional = <<>>
      /\ ( /\ fs[1] = <<"C">> /\ SwitchOn(fs[1]) /\ Len(fs) >= 7
           /\ IsId(fs[2]) /\ IsOrient(fs[3])
           /\ IsId(fs[4]) /\ IsOrient(fs[5])
           /\ IsPos(fs[6]) /\ IsOverlap(fs[7]) ) =>
             /\ IsOk(item) /\ r.kind = "C"
             /\ r.container_name = fs[2]
             /\ r.container_orient = OrientOf(fs[3])
             /\ r.contained_name = fs[4]
             /\ r.contained_orient = OrientOf(fs[5])
             /\ r.pos = StripZeros(fs[6])
             /\ r.overlap = fs[7]
             /\ Len(fs) = 7 => r.optional = <<>>

\* the link of the test can_parse_link was parsed with the BString strategy
C15_Witness ==
  /\ Called /\ parser.N = "BString" /\ parser.links
  /\ seen[1] = LineLink
  /\ IsOk(item)
  /\ item.val.from_orient = "Forward" /\ item.val.to_orient = "Backward"

-----------------------------------------------------------------------------
(* C16 *)

\* C16: a line that is the kind letter H alone, read by a parser whose
\* header switch is on, gives a Header with no version and an empty optional
\* collection.
C16_BareHeaderParses ==
  (Called /\ parser.headers /\ Fields(seen[1]) = << <<"H">> >>) =>
    /\ IsOk(item)
    /\ item.val.kind = "H"
    /\ IsNone(item.val.version)
    /\ item.val.optional = <<>>

-----------------------------------------------------------------------------
(* C17 *)

\* the per-kind sequences of a collection: GFA2 has fragments, GFA has not
SequencesOf(g) == DOMAIN g

\* the sequence of the collection that takes the records of kind k
SequenceFor(k) ==
  CASE k = "H" -> "headers"
    [] k = "S" -> "segments"
    [] k = "L" -> "links"
    [] k = "C" -> "containments"
    [] k = "P" -> "paths"
    [] k = "F" -> "fragments"
    [] k = "E" -> "edges"
    [] k = "G" -> "gaps"
    [] k = "O" -> "groups_o"
    [] k = "U" -> "groups_u"

\* g2 is g with line at the end of the sequence of its kind, and every other
\* sequence as it was
AppendedTo(g, g2, line) ==
  /\ g2[SequenceFor(line.kind)] = Append(g[SequenceFor(line.kind)], line)
  /\ \A f \in SequencesOf(g) \ {SequenceFor(line.kind)} : g2[f] = g[f]

-----------------------------------------------------------------------------
(* C18 *)

\* the order in which the iterators chain the kinds
KindOrder ==
  IF entry = "GFA2" THEN <<"H", "S", "F", "E", "G", "O", "U">>
  ELSE <<"H", "S", "L", "C", "P">>

\* the records of kind k among s, in the order of s
OfKind(s, k) == SelectSeq(s, LAMBDA r : r.kind = k)

\* the records of s kind by kind, from the i-th kind of order on
RECURSIVE KindByKind(_, _, _)
KindByKind(s, order, i) ==
  IF i > Len(order) THEN <<>>
  ELSE OfKind(s, order[i]) \o KindByKind(s, order, i + 1)

\* the sum of the lengths of the sequences fs of the collection g
RECURSIVE TotalLen(_, _)
TotalLen(g, fs) ==
  IF fs = {} THEN 0
  ELSE LET f == CHOOSE f \in fs : TRUE IN Len(g[f]) + TotalLen(g, fs \ {f})

-----------------------------------------------------------------------------
(* C19 *)

\* the extension of the path is on the allow-list
Allowed(p) == IsOk(p.ext) /\ p.ext.val \in {"gfa", "gfa2"}

\* C19: parse_file looks at the extension before it opens the file: a path
\* with no extension or with one that is not allowed ends the call with the
\* unsupported-extension error, whether the file exists or not; a path with
\* an allowed extension whose file cannot be opened ends it with the I/O
\* error.
C19_ExtensionBeforeOpen ==
  (entry = "parse_file" /\ pc # "open") =>
    /\ ~Allowed(path) => (pc = "err" /\ err = ExtensionError)
    /\ (Allowed(path) /\ ~path.exists) => (pc = "err" /\ err = IoError)

-----------------------------------------------------------------------------
(* C20 *)

\* C20: under Pedantic the error that parse_lines or parse_file returns for
\* a failing line holds the bytes of that line as they were read, whatever
\* the failure is.
C20_ErrorHoldsLine ==
  ( /\ InLoop /\ parser.tolerance = "Pedantic"
    /\ pc = "err" /\ IsErr(item) /\ err = item.val ) =>
      err.bytes = seen[Len(seen)]

-----------------------------------------------------------------------------
(* C21 *)

\* the placeholder of the optional form
Star == <<"*">>

\* the value that parse_opt_id gives the placeholder
Sentinel == usize_parse_opt_id(Star)

\* C21: with the usize strategy parse_opt_id gives the placeholder * one
\* value, and neither parse_opt_id nor parse_id gives that value to an
\* identifier of [!-~]+ other than *.
C21_SentinelReserved ==
  (entry \in {"parse_id", "parse_opt_id"} /\ parser.N = "usize") =>
    \A i \in 1..Len(seen) :
      /\ (entry = "parse_opt_id" /\ seen[i].input = Star) =>
           (IsOk(seen[i].output) /\ seen[i].output = Sentinel)
      /\ (seen[i].input # Star /\ Encodable(seen[i].input)) =>
           seen[i].output # Sentinel

-----------------------------------------------------------------------------
(* C23 *)

\* an identifier of decimal digits only whose value is in the range of usize
IsNumber(t) ==
  t # <<>> /\ (\A i \in 1..Len(t) : t[i] \in DigitSet) /\ FitsUsize(t)

\* the numeric value of a string of digits, as usize holds it
ValueOf(t) == StripZeros(t)

\* the i-th line of the source is a segment line named by the number t
SegmentNamed(i, t) ==
  /\ IsOk(seen[i].input)
  /\ Len(Fields(seen[i].input.val)) >= 3
  /\ Fields(seen[i].input.val)[1] = <<"S">>
  /\ Fields(seen[i].input.val)[2] = t
  /\ IsSequence(Fields(seen[i].input.val)[3])

\* the tokens of the calls and the names of the segment lines seen so far
NamesSeen ==
  IF entry = "parse_id" THEN { seen[i].input : i \in 1..Len(seen) }
  ELSE { Fields(seen[i].input.val)[2] :
           i \in { j \in 1..Len(seen) : IsOk(seen[j].input)
                     /\ Len(Fields(seen[j].input.val)) >= 2 } }

\* with the usize strategy every number among ts is encoded as its value by
\* parse_id, and the i-th item of a GFAParserLineIter is the segment of that
\* name when the i-th line of the source is a segment line named by it
EncodesToItself(ts) ==
  (entry \in {"parse_id", "line_iter"} /\ parser.N = "usize") =>
    \A i \in 1..Len(seen) : \A t \in ts :
      /\ (entry = "parse_id" /\ seen[i].input = t) =>
           seen[i].output = Ok(ValueOf(t))
      /\ (entry = "line_iter" /\ SegmentNamed(i, t)) =>
           /\ IsOk(seen[i].output) /\ IsOk(seen[i].output.val)
           /\ seen[i].output.val.val.kind = "S"
           /\ seen[i].output.val.val.name = ValueOf(t)

-----------------------------------------------------------------------------
(* C24 *)

\* the token without its last byte
Body(token) == SubSeq(token, 1, Len(token) - 1)

\* the digit of the orientation that closes the token
OrientDigit(token) == IF token[Len(token)] = "+" THEN <<"0">> ELSE <<"1">>

\* 10 * v + d as a number, v a value of usize and d a digit
TenTimesPlus(v, d) == StripZeros(v \o d)

\* the token is a body of [!-~]+ that parse_id of usize accepts, then a sign
AcceptedBodyAndSign(token) ==
  /\ token # <<>>
  /\ token[Len(token)] \in Signs
  /\ \A k \in 1..Len(token) : token[k] \in Printable
  /\ IsOk(usize_parse_id(Body(token)))

-----------------------------------------------------------------------------
(* C25 *)

\* the tokens of the reference list of the group r
GroupTokens(r) == SplitStr(r.var_field, " ")

\* the list of the group r is in its grammar: references for an O-group,
\* identifiers for a U-group
IsGroupList(r) ==
  \A k \in 1..Len(GroupTokens(r)) :
    IF r.kind = "O" THEN IsReference(GroupTokens(r)[k])
    ELSE IsId(GroupTokens(r)[k])

\* the identifier t as the strategy N holds it
Held(N, t) == IF N = "usize" THEN usize_parse_id(t).val ELSE t

\* the item that stands for the token of a group of kind G
GroupItem(G, N, token) ==
  IF G = "O" THEN <<Held(N, Body(token)), PairOf(token)[2]>>
  ELSE Held(N, token)

\* C25: with either strategy every call of iter() on a group whose list is
\* in its grammar comes to its end and yields one item per token of the
\* space-separated list, in stored order: for an O-group the identifier
\* with the orientation of the last byte, for a U-group the identifier.
C25_GroupIterYields ==
  (entry = "group_iter" /\ pc = "built" /\ IsGroupList(item.val)) =>
    \A i \in 1..Len(seen) :
      /\ seen[i].end = "done"
      /\ Len(seen[i].yielded) = Len(GroupTokens(item.val))
      /\ \A k \in 1..Len(seen[i].yielded) :
           seen[i].yielded[k]
             = GroupItem(item.val.kind, parser.N, GroupTokens(item.val)[k])

-----------------------------------------------------------------------------
(* C26 *)

\* C26: a tagged value of any type that is printed and parsed again gives
\* Some of the value it was.
C26_TagRoundTrip ==
  (entry = "tag" /\ pc = "ok") => seen[2] = item

-----------------------------------------------------------------------------
(* C27 *)

\* C27: parse_gfa_line on a line that is empty or holds only whitespace
\* returns the error EmptyLine, which is not UnknownLineType.
C27_BlankLineIsEmptyLine ==
  (Called /\ Trim(seen[1]) = <<>>) =>
    /\ IsErr(item)
    /\ item.val = EmptyLine
    /\ item.val # UnknownLineType

-----------------------------------------------------------------------------
(* C28 *)

\* the call under the tolerance tol returned Ok
Succeeded(tol) == gfa[tol].pc = "ok"

\* success under the tolerance a gives success under b with an equal
\* collection
Carries(a, b) ==
  Succeeded(a) => (Succeeded(b) /\ gfa[b].gfa = gfa[a].gfa)

\* C28: on the same lines, parse_lines that succeeds under Pedantic succeeds
\* under Safe and under IgnoreAll with an equal collection, and parse_lines
\* that succeeds under Safe succeeds under IgnoreAll with an equal collection.
C28_TolerancesOrdered ==
  (entry = "tolerances" /\ pc = "ok") =>
    /\ Carries("Pedantic", "Safe")
    /\ Carries("Pedantic", "IgnoreAll")
    /\ Carries("Safe", "IgnoreAll")

\* Safe has skipped a line that Pedantic failed on and has gone on to insert
\* a record
C28_Witness ==
  /\ entry = "tolerances"
  /\ pc = "ok"
  /\ gfa["Pedantic"].pc = "err"
  /\ Succeeded("Safe")
  /\ Succeeded("IgnoreAll")
  /\ gfa["Safe"].gfa # GFA_new

-----------------------------------------------------------------------------
(* C29 *)

\* the call of next() recorded in c returned Some of an Ok or of an Err
YieldedResult(c) ==
  IsOk(c.output) /\ (IsOk(c.output.val) \/ IsErr(c.output.val))

\* C29: whatever the tolerance, every call of next() that draws a line from
\* the source returns Some of an Ok or of an Err for that line, a call that
\* finds the source exhausted returns None, and every call after the first
\* None returns None.
C29_OneResultPerLineThenNone ==
  entry = "line_iter" =>
    \A i \in 1..Len(seen) :
      /\ IsOk(seen[i].input) => YieldedResult(seen[i])
      /\ IsNone(seen[i].input) => IsNone(seen[i].output)
      /\ \A j \in 1..i : IsNone(seen[j].output) => IsNone(seen[i].output)

-----------------------------------------------------------------------------
(* C30 *)

\* the token is a tag of type Z
IsZTag(token) == IsOk(OptField_parse(token)) /\ OptField_parse(token).val.type = "Z"

\* the tags among the fields of fs from position k on, in order
TagsFrom(fs, k) ==
  LET rest == SubSeq(fs, k, Len(fs))
      tags == SelectSeq(rest, LAMBDA t : IsOk(OptField_parse(t)))
  IN  [ i \in 1..Len(tags) |-> OptField_parse(tags[i]).val ]

\* C30: on a header line with a field after the letter H, the version is set
\* from that field when it is a tag of type Z and is none otherwise, and in
\* both cases the optional collection holds the tags of the fields after it
\* and nothing of that field.
C30_FirstFieldIsVersionSlot ==
  (Called /\ Fields(seen[1])[1] = <<"H">> /\ Len(Fields(seen[1])) >= 2) =>
    LET fs == Fields(seen[1]) IN
      /\ IsOk(item)
      /\ item.val.kind = "H"
      /\ IsZTag(fs[2]) => item.val.version = Ok(OptField_parse(fs[2]).val.value)
      /\ ~IsZTag(fs[2]) => IsNone(item.val.version)
      /\ item.val.optional = TagsFrom(fs, 3)

\* a header line whose first field is a tag of another type than Z and is
\* followed by a tag
C30_Witness ==
  /\ Called
  /\ Fields(seen[1])[1] = <<"H">>
  /\ Len(Fields(seen[1])) >= 3
  /\ IsOk(OptField_parse(Fields(seen[1])[2]))
  /\ ~IsZTag(Fields(seen[1])[2])
  /\ IsOk(item)
  /\ IsNone(item.val.version)
  /\ Len(item.val.optional) = 1

=============================================================================
